---- MODULE Spec2Model ----
(***************************************************************************)
(* Connections Telegram delivery: the dispatcher                           *)
(* (backend/src/modules/connections/notifications/dispatcher.service.ts),  *)
(* its settings, the delivery history, the alert source and the            *)
(* connection registry it reads.                                           *)
(*                                                                         *)
(* Time is in milliseconds, as Date.now() and Date.getTime() give it.      *)
(* One dispatchPending invocation is a process p.  Its steps end where the *)
(* code awaits: a step is the code that runs when an awaited call has      *)
(* answered, together with the store operation or the send that the next   *)
(* awaited call performs.  It loads the settings and pulls the alerts      *)
(* (Start); per alert it checks the type toggle and asks for the last SENT *)
(* record (Eval), compares that record with the clock (CheckCooldown),     *)
(* sends to the resolved subscribers one by one (Send), appends the record *)
(* of the outcome (NoSubscribers, Record) and marks the alert              *)
(* (MarkSent); it returns its counters (Finish) and hands them to its      *)
(* caller (Return).  The clock may advance between any two steps (Tick).   *)
(*                                                                         *)
(* Further specifications share the state: SpecTest (sendTestMessage),     *)
(* SpecBot (the polling worker of backend/src/telegram-polling.worker.ts   *)
(* and its command handlers), SpecLife and SpecAdmin (the worker next to   *)
(* a dispatch pass), SpecConc (two interleaved dispatch passes), SpecCrash *)
(* (a pass that stops inside recordSent), SpecFault (the worker with       *)
(* rejecting calls and failing getUpdates), SpecRestart (the worker        *)
(* started again after a stop) and SpecOther (passes over an alert of a    *)
(* type the settings do not enumerate).                                    *)
(***************************************************************************)
EXTENDS Integers, Sequences, FiniteSets, TLC

----------------------------------------------------------------------------
(* Bounds of the model *)

\* hours of wall-clock time the model covers
MaxHours == 1
\* number of calls of sendTestMessage
MaxTests == 3
\* number of calls of dispatchPending each caller makes
MaxPasses == 2
\* number of updates Telegram holds for the bot
MaxUpdates == 2

----------------------------------------------------------------------------
(* Program constants *)

\* cooldownH * 3600 * 1000
MsPerHour == 3600 * 1000
\* opts?.limit ?? 50
DefaultLimit == 50
\* settings.cooldown_hours[type] ?? 12
DefaultCooldownH == 12

\* the invocations of dispatchPending; those of SeqProcs run in Spec, where
\* passes do not overlap
Procs == {1, 2}
SeqProcs == {1}

\* the loops of startTelegramPolling that can run at a time
Loops == {1, 2}

\* the instants the clock can show: each full hour and the millisecond before it
TimePoints == {0} \cup {h * MsPerHour + d : h \in 1..MaxHours, d \in {-1, 0}}

\* ConnectionsAlertType
AlertTypes == {"EARLY_BREAKOUT", "STRONG_ACCELERATION", "TREND_REVERSAL", "TEST"}

\* DEFAULT_TELEGRAM_SETTINGS
DEFAULT_TELEGRAM_SETTINGS ==
  [ enabled |-> FALSE,
    preview_only |-> TRUE,
    chat_id |-> "",
    cooldown_hours |-> [t \in AlertTypes |->
        CASE t = "TEST" -> 0
          [] t = "EARLY_BREAKOUT" -> 24
          [] t = "STRONG_ACCELERATION" -> 12
          [] t = "TREND_REVERSAL" -> 12],
    type_enabled |-> [t \in AlertTypes |-> TRUE] ]

----------------------------------------------------------------------------
(* Inputs: the alerts of the Alert Source, the settings records an admin   *)
(* can have stored, the registry states and the history earlier passes     *)
(* can have left.                                                          *)

\* the alerts the engine holds, in the order it returns them
Alerts ==
  << [id |-> "a1", type |-> "EARLY_BREAKOUT", author_id |-> "acctA"],
     [id |-> "a2", type |-> "EARLY_BREAKOUT", author_id |-> "acctA"],
     [id |-> "a3", type |-> "STRONG_ACCELERATION", author_id |-> "acctA"] >>

AlertIds == {Alerts[i].id : i \in 1..Len(Alerts)}

\* an alert of a type the engine produces and the settings do not enumerate
OtherAlerts ==
  << [id |-> "a4", type |-> "RISK_SPIKE", author_id |-> "acctA"] >>

\* every alert the engine can hold, in the order it returns them
EngineAlerts == Alerts \o OtherAlerts

AlertById(id) ==
  CHOOSE a \in {EngineAlerts[i] : i \in 1..Len(EngineAlerts)} : a.id = id

AdminChat == "chatAdmin"

\* settings an admin can have stored: the defaults with some fields patched
SettingsChoices ==
  { [DEFAULT_TELEGRAM_SETTINGS EXCEPT
       !.enabled = en, !.preview_only = po, !.chat_id = ch,
       !.cooldown_hours["EARLY_BREAKOUT"] = cd,
       !.type_enabled["EARLY_BREAKOUT"] = te] :
     en \in BOOLEAN, po \in BOOLEAN, ch \in {"", AdminChat},
     cd \in {0, 1, 24}, te \in BOOLEAN }

\* a preference of a connection document: true, false or not set
PrefDefault == [enabled |-> "unset", earlyBreakout |-> "unset",
                strongAcceleration |-> "unset", trendReversal |-> "unset"]

Conn(u, chat, active, prefs) ==
  [userId |-> u, chatId |-> chat, isActive |-> active,
   connectionsPreferences |-> prefs]

\* registry states: the documents of TelegramConnectionModel in natural order
ConnChoices ==
  { << Conn("u1", "chat1", act1, PrefDefault), u2 >> :
      act1 \in BOOLEAN,
      u2 \in { Conn("u2", "chat2", TRUE, PrefDefault),
               Conn("u2", AdminChat, TRUE, PrefDefault),
               Conn("u2", "", TRUE, PrefDefault),
               Conn("u2", "chat2", TRUE, [PrefDefault EXCEPT !.enabled = "false"]),
               Conn("u2", "chat2", TRUE,
                    [PrefDefault EXCEPT !.earlyBreakout = "false"]) } }

\* the DeliveryRecord an earlier pass left for an alert that is SENT since
PriorSent ==
  [id |-> "a0", type |-> "EARLY_BREAKOUT", account_id |-> "acctA",
   delivery_status |-> "SENT", delivery_reason |-> <<>>,
   sent_at |-> <<0>>, target |-> <<1>>]

HistoryChoices == { <<>>, <<PriorSent>> }

\* opts.limit as the caller passes it: <<>> when absent
LimitChoices == { <<1>>, <<2>>, <<>> }

----------------------------------------------------------------------------
VARIABLES
  now,          \* Date.now()
  settings,     \* the record of the Delivery Settings Store
  conns,        \* the documents of TelegramConnectionModel
  alertStatus,  \* status of each alert at the Alert Source
  history,      \* the Delivery History Store, oldest record first
  run,          \* per invocation of dispatchPending: its locals and position
  test,         \* the invocation of sendTestMessage: its position and outcome
  pending,      \* per connection document: pendingLinkToken, pendingLinkExpires
  inbox,        \* the updates Telegram holds for the bot, by update_id
  confirmed,    \* the first update_id Telegram has not yet dropped
  offset,       \* the worker's offset
  isPolling,    \* the worker's isPolling
  poll,         \* the polling loop: its position, the batch it fetched and
                \* the call its handler awaits
  replies,      \* the messages the command handlers sent, oldest first
  links         \* the documents of TelegramLinkModel (the D1 links)

\* the state of the polling worker and of what it talks to
botVars ==
  <<pending, inbox, confirmed, offset, isPolling, poll, replies, links>>

vars == <<now, settings, conns, alertStatus, history, run, test, botVars>>

\* an invocation that is not running; passes counts the calls the caller of
\* p has made so far
IdleRun ==
  [ pc |-> "idle", dryRun |-> FALSE, limit |-> DefaultLimit,
    settings |-> DEFAULT_TELEGRAM_SETTINGS,
    pulled |-> FALSE, previewAlerts |-> <<>>, i |-> 1,
    sent |-> 0, skipped |-> 0, failed |-> 0,
    lastSent |-> <<>>,
    subscribers |-> <<>>, attempts |-> <<>>, calls |-> 0,
    result |-> <<>>, passes |-> 0 ]

\* sendTestMessage is not running; tests counts the calls made so far
NoTest == [pc |-> "idle", threw |-> <<>>, returned |-> <<>>, target |-> "",
           subscribers |-> <<>>, calls |-> 0, sendOk |-> <<>>, tests |-> 0]

\* a polling loop that is not running
IdlePoll ==
  [pc |-> "off", batch |-> <<>>, k |-> 1, url |-> 0,
   aw |-> "", user |-> "", active |-> FALSE, d1 |-> FALSE, rej |-> FALSE,
   msg |-> ""]

Init ==
  /\ now = 0
  /\ settings \in SettingsChoices
  /\ conns \in ConnChoices
  /\ alertStatus = [id \in AlertIds |-> "preview"]
  /\ history \in HistoryChoices
  /\ run = [p \in Procs |-> IdleRun]
  /\ test = NoTest
  /\ pending = [k \in 1..Len(conns) |-> <<>>]
  /\ inbox = <<>>
  /\ confirmed = 0
  /\ offset = 0
  /\ isPolling = FALSE
  /\ poll = [l \in Loops |-> IdlePoll]
  /\ replies = <<>>
  /\ links = <<>>

----------------------------------------------------------------------------
(* Helpers of the dispatcher *)

\* getPreferenceField: the preference field of an alert type, <<>> for null
getPreferenceField(type) ==
  CASE type = "EARLY_BREAKOUT" -> <<"earlyBreakout">>
    [] type = "STRONG_ACCELERATION" -> <<"strongAcceleration">>
    [] type = "TREND_REVERSAL" -> <<"trendReversal">>
    [] type = "TEST" -> <<>>
    [] OTHER -> <<>>

\* faulty query: the preferences are not looked at
MatchesSubscriberQuery_NoPrefs(c, prefField) ==
  /\ c.isActive = TRUE
  /\ c.chatId # ""

\* the query of getActiveSubscribers applied to one document
MatchesSubscriberQuery(c, prefField) ==
  /\ c.isActive = TRUE
  /\ c.chatId # ""
  /\ c.connectionsPreferences.enabled # "false"
  /\ (prefField # <<>> => c.connectionsPreferences[prefField[1]] # "false")

RECURSIVE FindSubscribers(_, _)
FindSubscribers(docs, prefField) ==
  IF docs = <<>> THEN <<>>
  ELSE LET c == Head(docs)
           rest == FindSubscribers(Tail(docs), prefField)
       IN IF MatchesSubscriberQuery(c, prefField)
          THEN <<[chatId |-> c.chatId, userId |-> c.userId]>> \o rest
          ELSE rest

\* getActiveSubscribers(alertType) over the registry docs
getActiveSubscribers(docs, alertType) ==
  FindSubscribers(docs, getPreferenceField(alertType))

\* dispatchPending lines 198-207: the subscribers plus the admin channel
ResolveSubscribers(docs, cfg, type) ==
  LET subscribers == getActiveSubscribers(docs, type)
      hasAdminChannel == \E k \in 1..Len(subscribers) :
                            subscribers[k].chatId = cfg.chat_id
  IN IF cfg.chat_id # "" /\ ~hasAdminChannel
     THEN Append(subscribers, [chatId |-> cfg.chat_id, userId |-> "admin_channel"])
     ELSE subscribers

\* the type gate that lets a type without an entry through
TypeEnabled_MissingIsOn(cfg, type) ==
  type \notin DOMAIN cfg.type_enabled \/ cfg.type_enabled[type]

\* !settings.type_enabled[type] is false
TypeEnabled(cfg, type) ==
  type \in DOMAIN cfg.type_enabled /\ cfg.type_enabled[type]

\* the cooldown that is always off
CooldownH_Off(cfg, type) == 0

\* the cooldown that is zero for a type without an entry
CooldownH_MissingIsZero(cfg, type) ==
  IF type \in DOMAIN cfg.cooldown_hours THEN cfg.cooldown_hours[type] ELSE 0

\* settings.cooldown_hours[type] ?? 12
CooldownH(cfg, type) ==
  IF type \in DOMAIN cfg.cooldown_hours THEN cfg.cooldown_hours[type]
  ELSE DefaultCooldownH

\* deliveryStore.getLastSent(account_id, type): the most recent SENT record
\* of the pair, <<>> when there is none
getLastSent(hist, account_id, type) ==
  LET idxs == {k \in 1..Len(hist) :
                 /\ hist[k].delivery_status = "SENT"
                 /\ hist[k].account_id = account_id
                 /\ hist[k].type = type}
  IN IF idxs = {} THEN <<>>
     ELSE LET k == CHOOSE k \in idxs : \A j \in idxs :
                      \/ hist[j].sent_at[1] < hist[k].sent_at[1]
                      \/ (hist[j].sent_at[1] = hist[k].sent_at[1] /\ j <= k)
          IN <<hist[k]>>

\* faulty cooldown check: sinceMs <= cooldownMs
InCooldown_Inclusive(lastSent, cfg, alert, t) ==
  /\ lastSent # <<>>
  /\ lastSent[1].sent_at # <<>>
  /\ (t - lastSent[1].sent_at[1]) <= CooldownH(cfg, alert.type) * MsPerHour

\* dispatchPending lines 178-181: lastSent, the answer of getLastSent, puts
\* the alert inside its cooldown window at instant t
InCooldown(lastSent, cfg, alert, t) ==
  /\ lastSent # <<>>
  /\ lastSent[1].sent_at # <<>>
  /\ (t - lastSent[1].sent_at[1]) < CooldownH(cfg, alert.type) * MsPerHour

\* alertToEvent that gives every event the id of the first alert
alertToEvent_FirstId(alert) ==
  [id |-> Alerts[1].id, type |-> alert.type, account_id |-> alert.author_id,
   delivery_status |-> "PREVIEW", delivery_reason |-> <<>>,
   sent_at |-> <<>>, target |-> <<>>]

\* alertToEvent: the delivery event of an alert, status PREVIEW
alertToEvent(alert) ==
  [id |-> alert.id, type |-> alert.type, account_id |-> alert.author_id,
   delivery_status |-> "PREVIEW", delivery_reason |-> <<>>,
   sent_at |-> <<>>, target |-> <<>>]

\* a delivery_reason: a fixed code, or the text `all ${n} sends failed`
Reason(code) == <<code, 0>>
AllSendsFailed(n) == <<"all_sends_failed", n>>

\* recordSent that leaves the event at status PREVIEW
SentEvent_StaysPreview(alert, sentCount, t) ==
  [alertToEvent(alert) EXCEPT !.sent_at = <<t>>, !.target = <<sentCount>>]

\* recordSent: the event appended by recordSent(alert, `${n} subscribers`)
SentEvent(alert, sentCount, t) ==
  [alertToEvent(alert) EXCEPT !.delivery_status = "SENT",
                              !.sent_at = <<t>>, !.target = <<sentCount>>]

\* recordSkipped(alert, reason)
SkippedEvent(alert, reason) ==
  [alertToEvent(alert) EXCEPT !.delivery_status = "SKIPPED",
                              !.delivery_reason = Reason(reason)]

\* faulty recordFailed call: the reason holds the count of successful sends
FailedEvent_WrongCount(alert, failedCount) ==
  [alertToEvent(alert) EXCEPT !.delivery_status = "FAILED",
                              !.delivery_reason = AllSendsFailed(0)]

\* recordFailed(alert, `all ${n} sends failed`)
FailedEvent(alert, failedCount) ==
  [alertToEvent(alert) EXCEPT !.delivery_status = "FAILED",
                              !.delivery_reason = AllSendsFailed(failedCount)]

\* getAlerts({status: 'preview', limit}): ids of the first limit preview
\* alerts among those the engine holds (the ones that have a status)
RECURSIVE TakePreview(_, _, _)
TakePreview(list, status, limit) ==
  IF list = <<>> \/ limit <= 0 THEN <<>>
  ELSE IF Head(list).id \in DOMAIN status /\ status[Head(list).id] = "preview"
       THEN <<Head(list).id>> \o TakePreview(Tail(list), status, limit - 1)
       ELSE TakePreview(Tail(list), status, limit)

getAlerts(status, limit) == TakePreview(EngineAlerts, status, limit)

\* updateAlertStatus(id, 'sent')
updateAlertStatus(status, id) == [status EXCEPT ![id] = "sent"]

\* faulty send loop: the first failing send ends the loop
NextSend_StopOnFailure(subscribers, attempts) ==
  IF Len(attempts) > 0 /\ ~attempts[Len(attempts)].ok THEN 0
  ELSE IF Len(attempts) < Len(subscribers) THEN Len(attempts) + 1 ELSE 0

\* the send loop of dispatchPending (lines 219-227): the position of the
\* subscriber the next sendMessage goes to, 0 when the loop is over;
\* attempts are the calls made so far, ok telling whether a call returned
NextSend(subscribers, attempts) ==
  IF Len(attempts) < Len(subscribers) THEN Len(attempts) + 1 ELSE 0

CountOk(attempts, flag) ==
  Cardinality({k \in 1..Len(attempts) : attempts[k].ok = flag})

\* faulty global gate: the preview-only check is missing
GlobalGate_NoPreviewCheck(cfg) ==
  IF ~cfg.enabled THEN <<"telegram_disabled">>
  ELSE <<>>

\* faulty global gate: the preview-only check comes first
GlobalGate_PreviewFirst(cfg) ==
  IF cfg.preview_only THEN <<"preview_only">>
  ELSE IF ~cfg.enabled THEN <<"telegram_disabled">>
  ELSE <<>>

\* dispatchPending lines 147-155: the reason of the global gate that stops
\* the pass, <<>> when the pass goes on
GlobalGate(cfg) ==
  IF ~cfg.enabled THEN <<"telegram_disabled">>
  ELSE IF cfg.preview_only THEN <<"preview_only">>
  ELSE <<>>

\* lines 189-199: past the cooldown gate a dry run counts the alert, a live
\* run asks for the subscribers
AfterCooldownGate(dry) == IF dry THEN "dry_run" ELSE "find"

\* faulty loop body: the type toggle check is missing
TypeGate_NoToggle(cfg, alert, dry) ==
  IF CooldownH(cfg, alert.type) > 0 THEN "getLastSent"
  ELSE AfterCooldownGate(dry)

\* dispatchPending lines 165-177: what the loop body does with an alert up
\* to its first await: it records the skip of a disabled type, asks for the
\* last SENT record of the pair, or goes on past the cooldown gate
TypeGate(cfg, alert, dry) ==
  IF ~TypeEnabled(cfg, alert.type) THEN "type_disabled"
  ELSE IF CooldownH(cfg, alert.type) > 0 THEN "getLastSent"
  ELSE AfterCooldownGate(dry)

\* faulty loop body: the answer of getLastSent is not looked at
CooldownGate_NoCooldown(lastSent, cfg, alert, dry, t) == AfterCooldownGate(dry)

\* faulty loop body: the dry-run check is missing
CooldownGate_NoDryRun(lastSent, cfg, alert, dry, t) ==
  IF InCooldown(lastSent, cfg, alert, t) THEN "cooldown"
  ELSE "find"

\* dispatchPending lines 178-199: what the loop body does once getLastSent
\* has answered, at instant t
CooldownGate(lastSent, cfg, alert, dry, t) ==
  IF InCooldown(lastSent, cfg, alert, t) THEN "cooldown"
  ELSE AfterCooldownGate(dry)

\* the returned value that leaves the skipped alerts out
Result_NoSkipped(sent, skipped, failed, reason) ==
  [ok |-> TRUE, sent |-> sent, skipped |-> 0, failed |-> failed,
   reason |-> reason]

\* the value dispatchPending returns
Result(sent, skipped, failed, reason) ==
  [ok |-> TRUE, sent |-> sent, skipped |-> skipped, failed |-> failed,
   reason |-> reason]

----------------------------------------------------------------------------
(* Actions *)

\* the clock advances
Tick ==
  /\ \E t \in TimePoints : t > now /\ now' = t
  /\ UNCHANGED <<settings, conns, alertStatus, history, run, test, botVars>>

\* dispatchPending(opts) up to the loop: options, settings, global gates,
\* getAlerts.  No action writes the settings, so that the read of line 145
\* is taken where the code goes on after it.
Start(p, dry, lim) ==
  /\ run[p].pc = "idle"
  /\ run[p].passes < MaxPasses
  /\ LET limit == IF lim = <<>> THEN DefaultLimit ELSE lim[1]
         cfg == settings
         gate == GlobalGate(cfg)
         previewAlerts == getAlerts(alertStatus, limit)
     IN IF gate # <<>>
        THEN run' = [run EXCEPT ![p] =
               [IdleRun EXCEPT !.pc = "done", !.dryRun = dry, !.limit = limit,
                               !.settings = cfg,
                               !.result = <<Result(0, 0, 0, gate)>>,
                               !.passes = run[p].passes + 1]]
        ELSE run' = [run EXCEPT ![p] =
               [IdleRun EXCEPT !.pc = "loop", !.dryRun = dry,
                               !.limit = limit, !.settings = cfg,
                               !.pulled = TRUE,
                               !.previewAlerts = previewAlerts,
                               !.passes = run[p].passes + 1]]
  /\ UNCHANGED <<now, settings, conns, alertStatus, history, test, botVars>>

\* the locals of p when the loop body is done with the current alert
NextAlert(r) ==
  [r EXCEPT !.pc = "loop", !.i = r.i + 1, !.lastSent = <<>>,
            !.subscribers = <<>>, !.attempts = <<>>]

\* skipped++; continue
Skipped(r) == NextAlert([r EXCEPT !.skipped = r.skipped + 1])

\* lines 189-207 of a live run: getActiveSubscribers reads the registry; the
\* admin channel is added to what it answers
Resolved(r, docs, alert) ==
  [r EXCEPT !.pc = "fanout",
            !.subscribers = ResolveSubscribers(docs, r.settings, alert.type),
            !.attempts = <<>>]

\* the start of an iteration of the loop over previewAlerts (lines 164-177
\* and, with no cooldown, 189-199), up to the first store call it awaits
Eval(p) ==
  /\ run[p].pc = "loop"
  /\ run[p].i <= Len(run[p].previewAlerts)
  /\ LET r == run[p]
         alert == AlertById(r.previewAlerts[r.i])
         d == TypeGate(r.settings, alert, r.dryRun)
     IN CASE d = "type_disabled" ->
               /\ history' = Append(history, SkippedEvent(alert, d))
               /\ run' = [run EXCEPT ![p] = Skipped(r)]
          [] d = "getLastSent" ->
               /\ history' = history
               /\ run' = [run EXCEPT
                    ![p].pc = "cooldown",
                    ![p].lastSent =
                       getLastSent(history, alert.author_id, alert.type)]
          [] d = "dry_run" ->
               /\ history' = history
               /\ run' = [run EXCEPT ![p] = Skipped(r)]
          [] OTHER ->
               /\ history' = history
               /\ run' = [run EXCEPT ![p] = Resolved(r, conns, alert)]
  /\ UNCHANGED <<now, settings, conns, alertStatus, test, botVars>>

\* getLastSent has answered (lines 178-199): Date.now() is compared with the
\* answer, up to the next store call
CheckCooldown(p) ==
  /\ run[p].pc = "cooldown"
  /\ LET r == run[p]
         alert == AlertById(r.previewAlerts[r.i])
         d == CooldownGate(r.lastSent, r.settings, alert, r.dryRun, now)
     IN CASE d = "cooldown" ->
               /\ history' = Append(history, SkippedEvent(alert, d))
               /\ run' = [run EXCEPT ![p] = Skipped(r)]
          [] d = "dry_run" ->
               /\ history' = history
               /\ run' = [run EXCEPT ![p] = Skipped(r)]
          [] OTHER ->
               /\ history' = history
               /\ run' = [run EXCEPT ![p] = Resolved(r, conns, alert)]
  /\ UNCHANGED <<now, settings, conns, alertStatus, test, botVars>>

\* getActiveSubscribers has answered and nobody is to be sent to (lines
\* 209-213)
NoSubscribers(p) ==
  /\ run[p].pc = "fanout"
  /\ Len(run[p].subscribers) = 0
  /\ LET r == run[p]
         alert == AlertById(r.previewAlerts[r.i])
     IN /\ history' = Append(history, SkippedEvent(alert, "no_subscribers"))
        /\ run' = [run EXCEPT ![p] = Skipped(r)]
  /\ UNCHANGED <<now, settings, conns, alertStatus, test, botVars>>

\* one iteration of the send loop (lines 219-227): sendMessage returns (ok)
\* or throws
Send(p) ==
  /\ run[p].pc = "fanout"
  /\ NextSend(run[p].subscribers, run[p].attempts) # 0
  /\ LET r == run[p]
         k == NextSend(r.subscribers, r.attempts)
     IN \E ok \in BOOLEAN :
          run' = [run EXCEPT
                    ![p].attempts =
                       Append(r.attempts,
                              [chatId |-> r.subscribers[k].chatId, ok |-> ok]),
                    ![p].calls = r.calls + 1]
  /\ UNCHANGED <<now, settings, conns, alertStatus, history, test, botVars>>

\* the send loop is over (lines 229-236): recordSent up to its
\* deliveryStore.record (lines 298-302), or recordFailed
Record(p) ==
  /\ run[p].pc = "fanout"
  /\ Len(run[p].subscribers) > 0
  /\ NextSend(run[p].subscribers, run[p].attempts) = 0
  /\ LET r == run[p]
         alert == AlertById(r.previewAlerts[r.i])
         sentCount == CountOk(r.attempts, TRUE)
         failedCount == CountOk(r.attempts, FALSE)
     IN IF sentCount > 0
        THEN /\ history' = Append(history, SentEvent(alert, sentCount, now))
             /\ run' = [run EXCEPT ![p].pc = "mark"]
        ELSE /\ history' = Append(history, FailedEvent(alert, failedCount))
             /\ run' = [run EXCEPT
                          ![p] = NextAlert([r EXCEPT !.failed = r.failed + 1])]
  /\ UNCHANGED <<now, settings, conns, alertStatus, test, botVars>>

\* deliveryStore.record has answered inside recordSent: updateAlertStatus
\* (line 305), then sent++ (line 232)
MarkSent(p) ==
  /\ run[p].pc = "mark"
  /\ LET r == run[p]
         alert == AlertById(r.previewAlerts[r.i])
     IN /\ alertStatus' = updateAlertStatus(alertStatus, alert.id)
        /\ run' = [run EXCEPT ![p] = NextAlert([r EXCEPT !.sent = r.sent + 1])]
  /\ UNCHANGED <<now, settings, conns, history, test, botVars>>

\* return { ok: true, sent, skipped, failed } (line 239)
Finish(p) ==
  /\ run[p].pc = "loop"
  /\ run[p].i > Len(run[p].previewAlerts)
  /\ run' = [run EXCEPT ![p].pc = "done",
               ![p].result = <<Result(run[p].sent, run[p].skipped,
                                      run[p].failed, <<>>)>>]
  /\ UNCHANGED <<now, settings, conns, alertStatus, history, test, botVars>>

\* the caller has the result; the invocation is over
Return(p) ==
  /\ run[p].pc = "done"
  /\ run' = [run EXCEPT ![p] = [IdleRun EXCEPT !.passes = run[p].passes]]
  /\ UNCHANGED <<now, settings, conns, alertStatus, history, test, botVars>>

Next ==
  \/ Tick
  \/ \E p \in SeqProcs, dry \in BOOLEAN, lim \in LimitChoices : Start(p, dry, lim)
  \/ \E p \in SeqProcs : Eval(p)
  \/ \E p \in SeqProcs : CheckCooldown(p)
  \/ \E p \in SeqProcs : NoSubscribers(p)
  \/ \E p \in SeqProcs : Send(p)
  \/ \E p \in SeqProcs : Record(p)
  \/ \E p \in SeqProcs : MarkSent(p)
  \/ \E p \in SeqProcs : Finish(p)
  \/ \E p \in SeqProcs : Return(p)

Spec == Init /\ [][Next]_vars

----------------------------------------------------------------------------
(* sendTestMessage (dispatcher.service.ts lines 246-291).  A step is the   *)
(* code that runs when an awaited call has answered, together with the     *)
(* read, the send or the write that the next awaited call performs:        *)
(* SendTest (the call, up to settingsStore.get), TestGates (the settings   *)
(* have answered), TestResolved (getActiveSubscribers has answered),       *)
(* TestSent (sendMessage has answered), TestRecorded (deliveryStore.record *)
(* has answered) and TestReturn.                                           *)

\* the messages of the errors sendTestMessage throws
ErrDisabled == "Telegram delivery is disabled. Enable it in settings first."
ErrPreviewOnly == "Preview-only mode is enabled. Disable it to send messages."
ErrNoChat == "No chat ID configured and no active subscribers found."
\* the error of TelegramTransport.sendMessage
ErrSendFailed == "Telegram sendMessage failed"

\* generateId: one id stands for the ids it makes
GeneratedId == "tg_id"

\* the test event once it is recorded
TestEvent(t) ==
  [id |-> GeneratedId, type |-> "TEST", account_id |-> "test",
   delivery_status |-> "SENT", delivery_reason |-> <<>>,
   sent_at |-> <<t>>, target |-> <<>>]

\* the configuration error sendTestMessage throws, <<>> when there is none
\* (lines 249-255)
TestGate(cfg) ==
  IF ~cfg.enabled THEN <<ErrDisabled>>
  ELSE IF cfg.preview_only THEN <<ErrPreviewOnly>>
  ELSE <<>>

\* the target that is the last subscriber
TestTarget_LastSubscriber(subscribers, cfg) ==
  IF cfg.chat_id # ""
  THEN cfg.chat_id
  ELSE IF Len(subscribers) > 0 THEN subscribers[Len(subscribers)].chatId
  ELSE ""

\* targetChatId: settings.chat_id, else the first of the subscribers that
\* getActiveSubscribers('TEST') answered, else "" (lines 258-268)
TestTarget(subscribers, cfg) ==
  IF cfg.chat_id # ""
  THEN cfg.chat_id
  ELSE IF Len(subscribers) > 0 THEN subscribers[1].chatId
  ELSE ""

\* sendTestMessage has thrown the error
TestThrows(r, err) == [r EXCEPT !.pc = "done", !.threw = err]

\* lines 270-283: no target throws; else telegram.sendMessage is called for
\* the target, and the send succeeds (ok) or will throw
TestSending(r, target, ok) ==
  IF target = ""
  THEN TestThrows(r, <<ErrNoChat>>)
  ELSE [r EXCEPT !.pc = "send", !.target = target, !.calls = r.calls + 1,
                 !.sendOk = <<ok>>]

\* what sendTestMessage appends to the history once the send has answered,
\* with the record written whether the send succeeded or not
TestRecord_RecordsFirst(ok, t) == <<TestEvent(t)>>

\* what sendTestMessage appends to the history once the send has answered:
\* the test event, SENT at t, after a send that succeeded (lines 283-288)
TestRecord(ok, t) == IF ok THEN <<TestEvent(t)>> ELSE <<>>

\* sendTestMessage() is called: up to the await of settingsStore.get (247)
SendTest ==
  /\ test.pc = "idle"
  /\ test.tests < MaxTests
  /\ test' = [NoTest EXCEPT !.pc = "settings", !.tests = test.tests + 1]
  /\ UNCHANGED <<now, settings, conns, alertStatus, history, run, botVars>>

\* the settings have answered (no action writes them): the two
\* configuration errors; with an admin destination the send, without one
\* the call of getActiveSubscribers('TEST'), which reads the registry
TestGates ==
  /\ test.pc = "settings"
  /\ LET err == TestGate(settings)
     IN IF err # <<>>
        THEN test' = TestThrows(test, err)
        ELSE IF settings.chat_id # ""
        THEN \E ok \in BOOLEAN :
               test' = TestSending(test, TestTarget(<<>>, settings), ok)
        ELSE test' = [test EXCEPT
                        !.pc = "find",
                        !.subscribers = getActiveSubscribers(conns, "TEST")]
  /\ UNCHANGED <<now, settings, conns, alertStatus, history, run, botVars>>

\* getActiveSubscribers has answered: the target, the no-destination error
\* or the send (lines 264-283)
TestResolved ==
  /\ test.pc = "find"
  /\ \E ok \in BOOLEAN :
       test' = TestSending(test, TestTarget(test.subscribers, settings), ok)
  /\ UNCHANGED <<now, settings, conns, alertStatus, history, run, botVars>>

\* sendMessage has answered: it throws, or the event is set SENT with
\* sent_at = new Date() and deliveryStore.record is called (lines 283-288)
TestSent ==
  /\ test.pc = "send"
  /\ LET ok == test.sendOk[1]
         record == TestRecord(ok, now)
     IN /\ history' = IF record = <<>> THEN history
                      ELSE Append(history, record[1])
        /\ test' = IF ok THEN [test EXCEPT !.pc = "record"]
                   ELSE TestThrows(test, <<ErrSendFailed>>)
  /\ UNCHANGED <<now, settings, conns, alertStatus, run, botVars>>

\* deliveryStore.record has answered: return { ok: true, message } (290)
TestRecorded ==
  /\ test.pc = "record"
  /\ test' = [test EXCEPT !.pc = "done", !.returned = <<[ok |-> TRUE]>>]
  /\ UNCHANGED <<now, settings, conns, alertStatus, history, run, botVars>>

\* the caller has the result or the error
TestReturn ==
  /\ test.pc = "done"
  /\ test' = [NoTest EXCEPT !.tests = test.tests]
  /\ UNCHANGED <<now, settings, conns, alertStatus, history, run, botVars>>

NextTest ==
  \/ Tick
  \/ SendTest
  \/ TestGates
  \/ TestResolved
  \/ TestSent
  \/ TestRecorded
  \/ TestReturn

SpecTest == Init /\ [][NextTest]_vars

----------------------------------------------------------------------------
(* The polling worker (backend/src/telegram-polling.worker.ts).  Every     *)
(* call of startTelegramPolling that gets past the isPolling test runs a   *)
(* loop of its own; the loops share offset and isPolling.  A loop puts the *)
(* offset into the URL and calls fetch (StartPolling, Wake), gets the      *)
(* response (Fetch) and its body (Parsed), hands the updates one by one to *)
(* processUpdate and sleeps.  A step inside the batch (Handle) is the code *)
(* that runs when an awaited call has answered, an import included,        *)
(* together with the read, the write or the send that the next awaited     *)
(* call performs; when processUpdate returns, the step assigns the offset  *)
(* and calls processUpdate for the next update, which runs to its import   *)
(* (line 33).  A text is the sequence of the command prefix the handler    *)
(* tests for and of the rest.                                              *)

\* the chats that write to the bot
ChatIds == {"chat1", AdminChat}

\* the link tokens the website has issued, and one it has not
LinkTokens == {"t1", "t2"}
UnknownToken == "tx"

\* the texts of the messages
Texts ==
  {<<"/start link_", tok>> : tok \in {"t1", UnknownToken}}
    \cup {<<"/disconnect">>, <<"/status">>}

Update(id, chat, text) == [update_id |-> id, chat |-> chat, text |-> text]

\* what Telegram can hold for the bot: MaxUpdates updates with ids 1, 2, ...;
\* chat1 sends a link command, then either chat sends the link command of
\* u1, or chat1 a /disconnect
InboxChoices ==
  { [i \in 1..MaxUpdates |-> Update(i, f[i][1], f[i][2])] :
      f \in { g \in [1..MaxUpdates -> ChatIds \X Texts] :
                /\ g[1][1] = "chat1"
                /\ g[1][2][1] = "/start link_"
                /\ \A i \in 2..MaxUpdates :
                     \/ g[i][2] = <<"/start link_", "t1">>
                     \/ g[i] = <<"chat1", <<"/disconnect">>>> } }

\* a connection waiting for its link, as the website creates it
PendingLink(token, expires) == <<[token |-> token, expires |-> expires]>>

\* the instant the pending links expire
LinkExpires == MsPerHour

\* registry states the worker starts from: u1 waits for its link, u2 waits
\* for its link or is connected
BotRegistryChoices ==
  { [conns |-> <<Conn("u1", "", FALSE, PrefDefault), u2.doc>>,
     pending |-> <<PendingLink("t1", LinkExpires), u2.link>>] :
      u2 \in { [doc |-> Conn("u2", "", FALSE, PrefDefault),
                link |-> PendingLink("t2", LinkExpires)],
               [doc |-> Conn("u2", "chat1", TRUE, PrefDefault),
                link |-> <<>>],
               [doc |-> Conn("u2", AdminChat, TRUE, PrefDefault),
                link |-> <<>>] } }

InitBot ==
  /\ now = 0
  /\ settings = [DEFAULT_TELEGRAM_SETTINGS EXCEPT
                   !.enabled = TRUE, !.preview_only = FALSE]
  /\ \E reg \in BotRegistryChoices :
       /\ ~reg.conns[2].isActive
       /\ conns = reg.conns /\ pending = reg.pending
  /\ alertStatus = [id \in AlertIds |-> "preview"]
  /\ history = <<>>
  /\ run = [p \in Procs |-> IdleRun]
  /\ test = NoTest
  /\ inbox \in InboxChoices
  /\ confirmed = 0
  /\ offset = 0
  /\ isPolling = FALSE
  /\ poll = [l \in Loops |-> IdlePoll]
  /\ replies = <<>>
  /\ links = <<>>

\* findOne and updateOne take the first matching document: its index, or 0
FirstIndex(S) == IF S = {} THEN 0 ELSE CHOOSE k \in S : \A m \in S : k <= m

\* findOne that does not look at pendingLinkExpires
findPendingConnection_NoExpiry(docs, pend, token, t) ==
  FirstIndex({k \in 1..Len(docs) :
                pend[k] # <<>> /\ pend[k][1].token = token})

\* findOne({pendingLinkToken: token, pendingLinkExpires: {$gt: new Date()}})
findPendingConnection(docs, pend, token, t) ==
  FirstIndex({k \in 1..Len(docs) :
                /\ pend[k] # <<>>
                /\ pend[k][1].token = token
                /\ pend[k][1].expires > t})

\* updateOne({userId}, {$set: {chatId, isActive: true, ...},
\*                      $unset: {pendingLinkToken, pendingLinkExpires}})
completeLink(docs, pend, userId, chat) ==
  LET j == FirstIndex({m \in 1..Len(docs) : docs[m].userId = userId})
  IN IF j = 0
     THEN [conns |-> docs, pending |-> pend]
     ELSE [conns |-> [docs EXCEPT ![j].chatId = chat, ![j].isActive = TRUE],
           pending |-> [pend EXCEPT ![j] = <<>>]]

\* updateOne({chatId}, {isActive: false})
disconnectChat(docs, chat) ==
  LET j == FirstIndex({m \in 1..Len(docs) : docs[m].chatId = chat})
  IN IF j = 0 THEN docs ELSE [docs EXCEPT ![j].isActive = FALSE]

\* findOne({code}): the first document that carries the connection code
findByCode(docs, code) ==
  FirstIndex({k \in 1..Len(docs) :
                "code" \in DOMAIN docs[k] /\ docs[k].code = code})

\* saveTelegramConnection(userId, chatId, ...): the user's document gets the
\* chat and becomes active
saveTelegramConnection(docs, userId, chat) ==
  LET j == FirstIndex({m \in 1..Len(docs) : docs[m].userId = userId})
  IN IF j = 0 THEN docs
     ELSE [docs EXCEPT ![j].chatId = chat, ![j].isActive = TRUE]

\* the codes the Signals page has issued, and validateLinkCode(code): the
\* user the code belongs to, "" for a code that is not valid
D1Codes == {"FOMO-1"}
validateLinkCode(code) == IF code \in D1Codes THEN "u1" ELSE ""

\* a document of TelegramLinkModel
Link(u, chat, active) ==
  [userId |-> u, telegramChatId |-> chat, isActive |-> active]

\* saveTelegramLink(userId, chatId): the user has an active link to the chat
saveTelegramLink(lnks, userId, chat) ==
  LET j == FirstIndex({m \in 1..Len(lnks) : lnks[m].userId = userId})
  IN IF j = 0 THEN Append(lnks, Link(userId, chat, TRUE))
     ELSE [lnks EXCEPT ![j] = Link(userId, chat, TRUE)]

\* TelegramLinkModel.find({telegramChatId: chatId, isActive: true})
findActiveLinks(lnks, chat) ==
  SelectSeq(lnks, LAMBDA l : l.telegramChatId = chat /\ l.isActive)

\* TelegramLinkModel.updateMany({telegramChatId: chatId}, {isActive: false})
deactivateLinks(lnks, chat) ==
  [m \in 1..Len(lnks) |->
     IF lnks[m].telegramChatId = chat
     THEN [lnks[m] EXCEPT !.isActive = FALSE] ELSE lnks[m]]

\* the message a handler sent for an update
Reply(update, kind) ==
  [update_id |-> update.update_id, chatId |-> update.chat, kind |-> kind]

\* getUpdates?offset=...: Telegram drops the updates below the offset and
\* answers with updates it still holds, oldest first
Held(box, from) ==
  SelectSeq(box, LAMBDA u : u.update_id >= from)

\* the offset that does not move past the update
NextOffset_Stay(update) == update.update_id

\* offset = update.update_id + 1
NextOffset(update) == update.update_id + 1

\* the stores the handlers read and write, and the replies they have sent
Stores(docs, pend, lnks, reps) ==
  [conns |-> docs, pending |-> pend, links |-> lnks, replies |-> reps]

\* where a handler is: the call it awaits, whether that call rejects, what
\* its earlier calls have answered, and the message it is sending
Awaiting(call, rej) ==
  [aw |-> call, user |-> "", active |-> FALSE, d1 |-> FALSE, rej |-> rej,
   msg |-> ""]

\* processUpdate has returned
Returned(st) == [st |-> st, h |-> Awaiting("returned", FALSE)]

\* await telegramService.sendTelegramMessage(chatId, template): the message
\* goes out (ok) or the call rejects
sendTelegramMessage(st, update, kind, ok) ==
  [st |-> IF ok
          THEN [st EXCEPT !.replies = Append(st.replies, Reply(update, kind))]
          ELSE st,
   h |-> [Awaiting("reply", ~ok) EXCEPT !.msg = kind]]

\* processUpdate(update) from its first line to the import of line 33
HandlerStart(update) == Awaiting("import", FALSE)

\* processUpdate(update) from the answer of the call it awaits (h) to its
\* next awaited call, which answers (ok) or rejects, or to its return.  A
\* call that rejects leaves its store as it is.  A rejected call ends in
\* the catch of processUpdate, which only logs (296-298), except in the
\* try blocks of the branches: a rejection inside the try of /link ends in
\* its catch, which sends a reply (197-205), and a rejected call on
\* TelegramLinkModel in /status and /disconnect is swallowed (237-239,
\* 282-284).
HandlerResume(st, update, h, t, ok) ==
  LET chat == update.chat
      text == update.text
  IN IF h.aw = "reply"
     THEN IF h.rej /\ text[1] = "/link " /\ h.msg # "link_failed"
          THEN sendTelegramMessage(st, update, "link_failed", ok)
          ELSE Returned(st)
     ELSE CASE text[1] = "/start link_" ->
            IF h.aw = "import"
            THEN LET k == findPendingConnection(st.conns, st.pending,
                                                text[2], t)
                 IN [st |-> st,
                     h |-> [Awaiting("findOne", ~ok) EXCEPT
                              !.user = IF ok /\ k # 0 THEN st.conns[k].userId
                                       ELSE ""]]
            ELSE IF h.rej THEN Returned(st)
            ELSE IF h.aw = "updateOne"
            THEN sendTelegramMessage(st, update, "connected", ok)
            ELSE IF h.user # ""
            THEN [st |-> IF ok
                         THEN LET reg == completeLink(st.conns, st.pending,
                                                      h.user, chat)
                              IN [st EXCEPT !.conns = reg.conns,
                                            !.pending = reg.pending]
                         ELSE st,
                  h |-> Awaiting("updateOne", ~ok)]
            ELSE sendTelegramMessage(st, update, "invalid_or_expired_link", ok)
       [] text[1] = "/start " ->
            IF h.aw = "import"
            THEN LET k == findByCode(st.conns, text[2])
                 IN [st |-> st,
                     h |-> [Awaiting("findOne", ~ok) EXCEPT
                              !.user = IF ok /\ k # 0 THEN st.conns[k].userId
                                       ELSE ""]]
            ELSE IF h.rej THEN Returned(st)
            ELSE IF h.aw = "saveTelegramConnection"
            THEN sendTelegramMessage(st, update, "connected_by_code", ok)
            ELSE IF h.user # ""
            THEN [st |-> IF ok
                         THEN [st EXCEPT !.conns =
                                 saveTelegramConnection(st.conns, h.user, chat)]
                         ELSE st,
                  h |-> Awaiting("saveTelegramConnection", ~ok)]
            ELSE sendTelegramMessage(st, update, "invalid_connection_code", ok)
       [] text = <<"/start">> ->
            sendTelegramMessage(st, update, "welcome", ok)
       [] text[1] = "/link " ->
            IF h.aw = "import"
            THEN [st |-> st, h |-> Awaiting("importD1", FALSE)]
            ELSE IF h.aw = "importD1"
            THEN LET userId == validateLinkCode(text[2])
                 IN IF userId # ""
                    THEN [st |-> IF ok
                                 THEN [st EXCEPT !.links =
                                         saveTelegramLink(st.links, userId,
                                                          chat)]
                                 ELSE st,
                          h |-> Awaiting("saveTelegramLink", ~ok)]
                    ELSE sendTelegramMessage(st, update,
                                             "invalid_or_expired_code", ok)
            ELSE IF h.rej
            THEN sendTelegramMessage(st, update, "link_failed", ok)
            ELSE sendTelegramMessage(st, update, "linked", ok)
       [] text = <<"/help">> -> sendTelegramMessage(st, update, "help", ok)
       [] text = <<"/status">> ->
            IF h.aw = "import"
            THEN LET k == FirstIndex({m \in 1..Len(st.conns) :
                                        st.conns[m].chatId = chat})
                 IN [st |-> st,
                     h |-> [Awaiting("findOne", ~ok) EXCEPT
                              !.active = ok /\ k # 0 /\ st.conns[k].isActive]]
            ELSE IF h.aw = "findOne"
            THEN IF h.rej THEN Returned(st)
                 ELSE [st |-> st,
                       h |-> [Awaiting("importD1", FALSE) EXCEPT
                                !.active = h.active]]
            ELSE IF h.aw = "importD1"
            THEN [st |-> st,
                  h |-> [Awaiting("find", ~ok) EXCEPT
                           !.active = h.active,
                           !.d1 = ok /\ findActiveLinks(st.links, chat)
                                          # <<>>]]
            ELSE sendTelegramMessage(st, update,
                   IF h.active \/ h.d1 THEN "connection_active"
                   ELSE "not_connected", ok)
       [] text = <<"/disconnect">> ->
            IF h.aw = "import"
            THEN [st |-> IF ok
                         THEN [st EXCEPT !.conns =
                                 disconnectChat(st.conns, chat)]
                         ELSE st,
                  h |-> Awaiting("updateOne", ~ok)]
            ELSE IF h.aw = "updateOne"
            THEN IF h.rej THEN Returned(st)
                 ELSE [st |-> st, h |-> Awaiting("importD1", FALSE)]
            ELSE IF h.aw = "importD1"
            THEN [st |-> IF ok
                         THEN [st EXCEPT !.links =
                                 deactivateLinks(st.links, chat)]
                         ELSE st,
                  h |-> Awaiting("updateMany", ~ok)]
            ELSE sendTelegramMessage(st, update, "disconnected", ok)
       [] OTHER -> Returned(st)

\* a call of processUpdate run to its return with every call answering and
\* nothing else running in between: the stores it leaves
RECURSIVE RunHandler(_, _, _, _)
RunHandler(st, update, h, t) ==
  IF h.aw = "returned" THEN st
  ELSE LET r == HandlerResume(st, update, h, t, TRUE)
       IN RunHandler(r.st, update, r.h, t)

processUpdate(docs, pend, lnks, update, t) ==
  LET st == RunHandler(Stores(docs, pend, lnks, <<>>), update,
                       HandlerStart(update), t)
  IN [registry |-> [conns |-> st.conns, pending |-> st.pending],
      links |-> st.links,
      reply |-> IF st.replies = <<>> THEN <<>> ELSE <<st.replies[1].kind>>]

\* loop l inside its batch, at update k, its handler at h
InBatch(batch, k, h) ==
  [pc |-> "batch", batch |-> batch, k |-> k, url |-> 0,
   aw |-> h.aw, user |-> h.user, active |-> h.active, d1 |-> h.d1,
   rej |-> h.rej, msg |-> h.msg]

\* the for loop of lines 325-328 at update k: processUpdate(update) is
\* called and runs to its import; after the last update, the sleep of line
\* 335
Proceed(batch, k) ==
  IF k > Len(batch)
  THEN [IdlePoll EXCEPT !.pc = "sleep"]
  ELSE InBatch(batch, k, HandlerStart(batch[k]))

\* while (isPolling), lines 318-321: the loop ends, or it puts the offset
\* into the URL and calls fetch
Polls(on, off) ==
  IF on THEN [IdlePoll EXCEPT !.pc = "getUpdates", !.url = off]
  ELSE IdlePoll

\* startTelegramPolling, up to the first fetch; the call runs the first
\* loop that is free
StartPolling(l) ==
  /\ poll[l].pc = "off"
  /\ \A m \in Loops : m < l => poll[m].pc # "off"
  /\ ~isPolling
  /\ isPolling' = TRUE
  /\ poll' = [poll EXCEPT ![l] = Polls(TRUE, offset)]
  /\ UNCHANGED <<now, settings, conns, alertStatus, history, run, test,
                 pending, inbox, confirmed, offset, replies, links>>

\* stopTelegramPolling
StopPolling ==
  /\ isPolling
  /\ isPolling' = FALSE
  /\ UNCHANGED <<now, settings, conns, alertStatus, history, run, test,
                 pending, inbox, confirmed, offset, poll, replies,
                 links>>

\* Telegram answers getUpdates?offset=url: it drops the updates below the
\* offset of the URL and sends a batch of those it holds, or none; the loop
\* asks for the body (line 322)
Fetch(l) ==
  /\ poll[l].pc = "getUpdates"
  /\ LET from == IF poll[l].url > confirmed THEN poll[l].url ELSE confirmed
         held == Held(inbox, from)
     IN /\ confirmed' = from
        /\ \E n \in 0..Len(held) :
             poll' = [poll EXCEPT
                        ![l] = [IdlePoll EXCEPT
                                  !.pc = "json",
                                  !.batch = SubSeq(held, 1, n)]]
  /\ UNCHANGED <<now, settings, conns, alertStatus, history, run, test,
                 pending, inbox, offset, isPolling, replies, links>>

\* the body has arrived: the for loop over data.result begins, or, with no
\* update, the sleep of line 335
Parsed(l) ==
  /\ poll[l].pc = "json"
  /\ poll' = [poll EXCEPT ![l] = Proceed(poll[l].batch, 1)]
  /\ UNCHANGED <<now, settings, conns, alertStatus, history, run, test,
                 pending, inbox, confirmed, offset, isPolling, replies,
                 links>>

\* loop l inside its batch when the call its handler awaits has answered:
\* the code runs to the next awaited call, which answers (ok) or rejects;
\* when the handler returns, the offset is assigned and processUpdate is
\* called for the next update (lines 325-328)
AfterAwait(l, ok) ==
  LET st == Stores(conns, pending, links, replies)
      batch == poll[l].batch
      k == poll[l].k
      c == HandlerResume(st, batch[k], poll[l], now, ok)
  IN IF c.h.aw = "returned"
     THEN [st |-> c.st, offset |-> NextOffset(batch[k]),
           poll |-> Proceed(batch, k + 1)]
     ELSE [st |-> c.st, offset |-> offset, poll |-> InBatch(batch, k, c.h)]

\* the stores, the offset and loop l after its step
LoopStep(l, r) ==
  /\ conns' = r.st.conns
  /\ pending' = r.st.pending
  /\ links' = r.st.links
  /\ replies' = r.st.replies
  /\ offset' = r.offset
  /\ poll' = [poll EXCEPT ![l] = r.poll]
  /\ UNCHANGED <<now, settings, alertStatus, history, run, test,
                 inbox, confirmed, isPolling>>

\* a step of loop l inside its batch in which the call that is made, if
\* any, answers
Handle(l) ==
  /\ poll[l].pc = "batch"
  /\ LoopStep(l, AfterAwait(l, TRUE))

\* the sleep at the end of an iteration is over: while (isPolling), and the
\* next fetch with the offset of this instant
Wake(l) ==
  /\ poll[l].pc = "sleep"
  /\ poll' = [poll EXCEPT ![l] = Polls(isPolling, offset)]
  /\ UNCHANGED <<now, settings, conns, alertStatus, history, run, test,
                 pending, inbox, confirmed, offset, isPolling, replies,
                 links>>

\* a step of loop l inside its batch in which the call that is made, on the
\* registry, on the D1 links or to send a message, rejects
HandleFails(l) ==
  /\ poll[l].pc = "batch"
  /\ AfterAwait(l, FALSE).poll.rej
  /\ LoopStep(l, AfterAwait(l, FALSE))

\* fetch or response.json() rejects: the catch of the loop logs and sleeps
\* five seconds
FetchFails(l) ==
  /\ poll[l].pc \in {"getUpdates", "json"}
  /\ poll' = [poll EXCEPT ![l] = [IdlePoll EXCEPT !.pc = "backoff"]]
  /\ UNCHANGED <<now, settings, conns, alertStatus, history, run, test,
                 pending, inbox, confirmed, offset, isPolling, replies,
                 links>>

\* faulty catch: the loop ends after a failed getUpdates
Recover_Exit(l) ==
  /\ poll[l].pc = "backoff"
  /\ poll' = [poll EXCEPT ![l].pc = "off"]
  /\ UNCHANGED <<now, settings, conns, alertStatus, history, run, test,
                 pending, inbox, confirmed, offset, isPolling, replies,
                 links>>

\* the five seconds are over: on to the sleep at the end of the iteration
Recover(l) ==
  /\ poll[l].pc = "backoff"
  /\ poll' = [poll EXCEPT ![l].pc = "sleep"]
  /\ UNCHANGED <<now, settings, conns, alertStatus, history, run, test,
                 pending, inbox, confirmed, offset, isPolling, replies,
                 links>>

\* the worker on its own, with the clock
NextBot ==
  \/ Tick
  \/ \E l \in Loops : StartPolling(l)
  \/ StopPolling
  \/ \E l \in Loops : Fetch(l)
  \/ \E l \in Loops : Parsed(l)
  \/ \E l \in Loops : Handle(l)
  \/ \E l \in Loops : HandleFails(l)
  \/ \E l \in Loops : Wake(l)

SpecBot == InitBot /\ [][NextBot]_vars

\* the chat links u1 to itself and then disconnects
LifeInbox(chat) ==
  << Update(1, chat, <<"/start link_", "t1">>),
     Update(2, chat, <<"/disconnect">>) >>

\* u2 is connected on the chat when the chat writes box; delivery is on, and
\* the admin destination is set where the chat is that destination
InitLifeOf(chat, box) ==
  /\ now = 0
  /\ settings = [DEFAULT_TELEGRAM_SETTINGS EXCEPT
                   !.enabled = TRUE, !.preview_only = FALSE,
                   !.chat_id = IF chat = AdminChat THEN AdminChat ELSE ""]
  /\ \E reg \in BotRegistryChoices :
       /\ reg.conns[2].chatId = chat
       /\ conns = reg.conns /\ pending = reg.pending
  /\ alertStatus = [id \in AlertIds |-> "preview"]
  /\ history = <<>>
  /\ run = [p \in Procs |-> IdleRun]
  /\ test = NoTest
  /\ inbox = box
  /\ confirmed = 0
  /\ offset = 0
  /\ isPolling = FALSE
  /\ poll = [l \in Loops |-> IdlePoll]
  /\ replies = <<>>
  /\ links = <<>>

\* a user's chat links and disconnects
InitLife == InitLifeOf("chat1", LifeInbox("chat1"))

\* the chat that is the admin destination links
InitAdmin == InitLifeOf(AdminChat, SubSeq(LifeInbox(AdminChat), 1, 1))

\* the passes the dispatcher runs next to the worker
LifePasses == 1

\* dispatchPending({limit: 1}) called next to the worker
StartPass(p) ==
  /\ run[p].passes < LifePasses
  /\ Start(p, FALSE, <<1>>)

\* the worker with the clock, and the dispatcher running a pass of one alert
\* next to it
NextLife ==
  \/ Tick
  \/ \E l \in Loops : StartPolling(l)
  \/ StopPolling
  \/ \E l \in Loops : Fetch(l)
  \/ \E l \in Loops : Parsed(l)
  \/ \E l \in Loops : Handle(l)
  \/ \E l \in Loops : Wake(l)
  \/ \E p \in SeqProcs : StartPass(p)
  \/ \E p \in SeqProcs : Eval(p)
  \/ \E p \in SeqProcs : CheckCooldown(p)
  \/ \E p \in SeqProcs : NoSubscribers(p)
  \/ \E p \in SeqProcs : Send(p)
  \/ \E p \in SeqProcs : Record(p)
  \/ \E p \in SeqProcs : MarkSent(p)
  \/ \E p \in SeqProcs : Finish(p)
  \/ \E p \in SeqProcs : Return(p)

\* the same where the admin destination is set: the fan-out is never empty,
\* so that no pass takes the step NoSubscribers
NextAdmin ==
  \/ Tick
  \/ \E l \in Loops : StartPolling(l)
  \/ StopPolling
  \/ \E l \in Loops : Fetch(l)
  \/ \E l \in Loops : Parsed(l)
  \/ \E l \in Loops : Handle(l)
  \/ \E l \in Loops : Wake(l)
  \/ \E p \in SeqProcs : StartPass(p)
  \/ \E p \in SeqProcs : Eval(p)
  \/ \E p \in SeqProcs : CheckCooldown(p)
  \/ \E p \in SeqProcs : Send(p)
  \/ \E p \in SeqProcs : Record(p)
  \/ \E p \in SeqProcs : MarkSent(p)
  \/ \E p \in SeqProcs : Finish(p)
  \/ \E p \in SeqProcs : Return(p)

SpecAdmin == InitAdmin /\ [][NextAdmin]_vars

SpecLife == InitLife /\ [][NextLife]_vars

----------------------------------------------------------------------------
(* The worker when things go wrong: a call of a handler on the registry or *)
(* on the D1 links rejects (HandleFails), and getUpdates fails (FetchFails, *)
(* then the five seconds of the catch, Recover), and a reply the handler   *)
(* sends is refused (HandleFails on the sendTelegramMessage call).  One    *)
(* chat sends every form of command the handler tests for, and one text    *)
(* that is no command.                                                     *)

\* the texts of the commands, and a text that is none
CommandTexts ==
  { <<"/start link_", "t1">>, <<"/start link_", UnknownToken>>,
    <<"/start ", "code1">>, <<"/start">>,
    <<"/link ", "FOMO-1">>, <<"/link ", "FOMO-X">>,
    <<"/help">>, <<"/status">>, <<"/disconnect">>, <<"hello">> }

\* the command prefixes processUpdate has a branch for
RecognizedCommands ==
  {"/start link_", "/start ", "/start", "/link ", "/help", "/status",
   "/disconnect"}

FaultInboxChoices ==
  { [i \in 1..MaxUpdates |-> Update(i, "chat1", f[i])] :
      f \in { g \in [1..MaxUpdates -> CommandTexts] :
                \A i \in 2..MaxUpdates :
                   g[i] \in {<<"/status">>, <<"/disconnect">>} } }

InitFault ==
  /\ now = 0
  /\ settings = [DEFAULT_TELEGRAM_SETTINGS EXCEPT
                   !.enabled = TRUE, !.preview_only = FALSE]
  /\ \E reg \in BotRegistryChoices :
       /\ reg.conns[2].chatId # AdminChat
       /\ conns = reg.conns /\ pending = reg.pending
  /\ alertStatus = [id \in AlertIds |-> "preview"]
  /\ history = <<>>
  /\ run = [p \in Procs |-> IdleRun]
  /\ test = NoTest
  /\ inbox \in FaultInboxChoices
  /\ confirmed = 0
  /\ offset = 0
  /\ isPolling = FALSE
  /\ poll = [l \in Loops |-> IdlePoll]
  /\ replies = <<>>
  /\ links = <<>>

NextFault ==
  \/ \E l \in Loops : StartPolling(l)
  \/ StopPolling
  \/ \E l \in Loops : Fetch(l)
  \/ \E l \in Loops : Parsed(l)
  \/ \E l \in Loops : FetchFails(l)
  \/ \E l \in Loops : Recover(l)
  \/ \E l \in Loops : Handle(l)
  \/ \E l \in Loops : HandleFails(l)
  \/ \E l \in Loops : Wake(l)

SpecFault == InitFault /\ [][NextFault]_vars

----------------------------------------------------------------------------
(* startTelegramPolling called more than once: every call that gets past   *)
(* the isPolling test runs a loop of its own, and the loops share offset   *)
(* and isPolling.  A call that finds isPolling set returns at once and     *)
(* takes no step.                                                          *)

NextRestart ==
  \/ \E l \in Loops : StartPolling(l)
  \/ StopPolling
  \/ \E l \in Loops : Fetch(l)
  \/ \E l \in Loops : Parsed(l)
  \/ \E l \in Loops : Handle(l)
  \/ \E l \in Loops : Wake(l)

SpecRestart == InitLife /\ [][NextRestart]_vars

----------------------------------------------------------------------------
(* Two invocations of dispatchPending whose steps interleave at their      *)
(* await points, over the same stores; each pulls one alert.               *)

\* delivery is on, at most one subscriber is connected, nothing was delivered
\* yet
ConcSettingsChoices ==
  { [DEFAULT_TELEGRAM_SETTINGS EXCEPT
       !.enabled = TRUE, !.preview_only = FALSE,
       !.cooldown_hours["EARLY_BREAKOUT"] = cd] : cd \in {0, 1} }

InitConc ==
  /\ now = 0
  /\ settings \in ConcSettingsChoices
  /\ \E act1 \in BOOLEAN :
       conns = << Conn("u1", "chat1", act1, PrefDefault),
                  Conn("u2", "chat2", FALSE, PrefDefault) >>
  /\ alertStatus = [id \in AlertIds |-> "preview"]
  /\ history = <<>>
  /\ run = [p \in Procs |-> IdleRun]
  /\ test = NoTest
  /\ pending = [k \in 1..Len(conns) |-> <<>>]
  /\ inbox = <<>>
  /\ confirmed = 0
  /\ offset = 0
  /\ isPolling = FALSE
  /\ poll = [l \in Loops |-> IdlePoll]
  /\ replies = <<>>
  /\ links = <<>>

NextConc ==
  \/ Tick
  \/ \E p \in Procs : Start(p, FALSE, <<1>>)
  \/ \E p \in Procs : Eval(p)
  \/ \E p \in Procs : CheckCooldown(p)
  \/ \E p \in Procs : NoSubscribers(p)
  \/ \E p \in Procs : Send(p)
  \/ \E p \in Procs : Record(p)
  \/ \E p \in Procs : MarkSent(p)
  \/ \E p \in Procs : Finish(p)
  \/ \E p \in Procs : Return(p)

SpecConc == InitConc /\ [][NextConc]_vars

----------------------------------------------------------------------------
(* The process stops inside recordSent, after deliveryStore.record has     *)
(* written the SENT record and before updateAlertStatus runs.              *)

CrashAfterRecord(p) ==
  /\ run[p].pc = "mark"
  /\ run' = [run EXCEPT ![p] = [IdleRun EXCEPT !.passes = run[p].passes]]
  /\ UNCHANGED <<now, settings, conns, alertStatus, history, test, botVars>>

\* delivery is on, u1 is the one destination there can be and nothing was
\* delivered yet
InitCrash ==
  /\ Init
  /\ settings.enabled
  /\ ~settings.preview_only
  /\ settings.chat_id = ""
  /\ conns[2].chatId = ""
  /\ history = <<>>

NextCrash ==
  \/ Tick
  \/ \E p \in SeqProcs, dry \in BOOLEAN, lim \in LimitChoices : Start(p, dry, lim)
  \/ \E p \in SeqProcs : Eval(p)
  \/ \E p \in SeqProcs : CheckCooldown(p)
  \/ \E p \in SeqProcs : NoSubscribers(p)
  \/ \E p \in SeqProcs : Send(p)
  \/ \E p \in SeqProcs : Record(p)
  \/ \E p \in SeqProcs : MarkSent(p)
  \/ \E p \in SeqProcs : Finish(p)
  \/ \E p \in SeqProcs : Return(p)
  \/ \E p \in SeqProcs : CrashAfterRecord(p)

SpecCrash == InitCrash /\ [][NextCrash]_vars

----------------------------------------------------------------------------
(* Passes over an alert of a type outside the enumerated ones: the engine  *)
(* holds one RISK_SPIKE alert, and the maps of the stored settings have an *)
(* entry for that type or have none.                                       *)

OtherType == OtherAlerts[1].type

\* a map of the settings with an entry for one more type
WithEntry(map, type, value) ==
  [t \in DOMAIN map \cup {type} |-> IF t = type THEN value ELSE map[t]]

\* delivery is on; cooldown_hours and type_enabled are the defaults, with
\* or without an entry for the type
OtherSettingsChoices ==
  { [DEFAULT_TELEGRAM_SETTINGS EXCEPT
       !.enabled = TRUE, !.preview_only = FALSE, !.chat_id = ch,
       !.cooldown_hours = cd, !.type_enabled = te] :
     ch \in {"", AdminChat},
     cd \in {DEFAULT_TELEGRAM_SETTINGS.cooldown_hours}
              \cup {WithEntry(DEFAULT_TELEGRAM_SETTINGS.cooldown_hours,
                              OtherType, h) : h \in {0, 1}},
     te \in {DEFAULT_TELEGRAM_SETTINGS.type_enabled}
              \cup {WithEntry(DEFAULT_TELEGRAM_SETTINGS.type_enabled,
                              OtherType, b) : b \in BOOLEAN} }

\* the DeliveryRecord of an alert of the type that was sent DefaultCooldownH
\* hours before the first full hour of the clock
PriorOtherSent ==
  [id |-> "a0", type |-> OtherType, account_id |-> "acctA",
   delivery_status |-> "SENT", delivery_reason |-> <<>>,
   sent_at |-> <<MsPerHour - DefaultCooldownH * MsPerHour>>, target |-> <<1>>]

InitOther ==
  /\ now = 0
  /\ settings \in OtherSettingsChoices
  /\ conns \in ConnChoices
  /\ alertStatus = [id \in {OtherAlerts[1].id} |-> "preview"]
  /\ history \in { <<>>, <<PriorOtherSent>> }
  /\ run = [p \in Procs |-> IdleRun]
  /\ test = NoTest
  /\ pending = [k \in 1..Len(conns) |-> <<>>]
  /\ inbox = <<>>
  /\ confirmed = 0
  /\ offset = 0
  /\ isPolling = FALSE
  /\ poll = [l \in Loops |-> IdlePoll]
  /\ replies = <<>>
  /\ links = <<>>

NextOther ==
  \/ Tick
  \/ \E p \in SeqProcs, dry \in BOOLEAN, lim \in LimitChoices : Start(p, dry, lim)
  \/ \E p \in SeqProcs : Eval(p)
  \/ \E p \in SeqProcs : CheckCooldown(p)
  \/ \E p \in SeqProcs : NoSubscribers(p)
  \/ \E p \in SeqProcs : Send(p)
  \/ \E p \in SeqProcs : Record(p)
  \/ \E p \in SeqProcs : MarkSent(p)
  \/ \E p \in SeqProcs : Finish(p)
  \/ \E p \in SeqProcs : Return(p)

SpecOther == InitOther /\ [][NextOther]_vars

----------------------------------------------------------------------------
(* Vocabulary of the properties *)

\* the step of invocation p that starts it
StartStep(p) == run[p].pc = "idle" /\ run'[p].pc # "idle"

\* the step of invocation p that starts the evaluation of its current alert:
\* the type toggle check and what follows up to the first await
EvalStep(p) ==
  /\ run[p].pc = "loop"
  /\ run[p].i <= Len(run[p].previewAlerts)
  /\ run'[p] # run[p]

\* the step of invocation p that compares the clock with the answer of
\* getLastSent
CooldownStep(p) == run[p].pc = "cooldown" /\ run'[p] # run[p]

\* the step of invocation p in which getActiveSubscribers reads the registry
ResolutionStep(p) ==
  run[p].pc \in {"loop", "cooldown"} /\ run'[p].pc = "fanout"

\* a step of invocation p after subscriber resolution, up to the record
FanOutStep(p) == run[p].pc = "fanout" /\ run'[p] # run[p]

\* the step of invocation p that makes one sendMessage call
SendStep(p) == FanOutStep(p) /\ run'[p].pc = "fanout"

\* the step of invocation p that records the outcome of its send loop
RecordStep(p) ==
  FanOutStep(p) /\ run[p].subscribers # <<>> /\ run'[p].pc # "fanout"

\* the step of invocation p that follows its SENT record
MarkStep(p) == run[p].pc = "mark" /\ run'[p] # run[p]

\* the alert invocation p is working on
CurAlert(p) == AlertById(run[p].previewAlerts[run[p].i])

LastRecord == history[Len(history)]

\* invocation p goes on with its next alert, the current one counted skipped
CountedSkipped(p) ==
  /\ run'[p].pc = "loop"
  /\ run'[p].i = run[p].i + 1
  /\ run'[p].skipped = run[p].skipped + 1
  /\ run'[p].sent = run[p].sent
  /\ run'[p].failed = run[p].failed
  /\ run'[p].calls = run[p].calls

\* the current alert was skipped with a record of the given reason
SkippedWith(p, reason) ==
  /\ history' = Append(history, SkippedEvent(CurAlert(p), reason))
  /\ alertStatus' = alertStatus
  /\ CountedSkipped(p)

\* some connection document is an eligible subscriber of the type
SomeEligible(type) ==
  \E k \in 1..Len(conns) :
    /\ conns[k].isActive
    /\ conns[k].chatId # ""
    /\ conns[k].connectionsPreferences.enabled # "false"
    /\ (getPreferenceField(type) # <<>> =>
          conns[k].connectionsPreferences[getPreferenceField(type)[1]] # "false")

----------------------------------------------------------------------------
(* C1: with enabled=false or preview_only=true, dispatchPending, dry run   *)
(* or not, is a no-op: it returns sent=0, skipped=0, failed=0, pulls no    *)
(* alerts, makes no transport call, appends no DeliveryRecord and changes  *)
(* no alert status.                                                        *)
C1_GatedPassIsNoOp ==
  [][\A p \in Procs :
       (StartStep(p) /\ (~settings.enabled \/ settings.preview_only)) =>
         /\ run'[p].pc = "done"
         /\ run'[p].result # <<>>
         /\ run'[p].result[1].sent = 0
         /\ run'[p].result[1].skipped = 0
         /\ run'[p].result[1].failed = 0
         /\ ~run'[p].pulled
         /\ run'[p].previewAlerts = <<>>
         /\ run'[p].calls = 0
         /\ history' = history
         /\ alertStatus' = alertStatus]_vars

\* a preview-only pass has returned although alerts are pending and a
\* subscriber is connected
C1_Witness ==
  \E p \in Procs :
    /\ run[p].pc = "done"
    /\ settings.enabled /\ settings.preview_only
    /\ run[p].result[1].reason # <<>>
    /\ alertStatus["a1"] = "preview"
    /\ SomeEligible("EARLY_BREAKOUT")

(* C2 as stated: the reason is "disabled" when enabled=false (also with    *)
(* preview_only=true), "preview_only" when enabled=true and                *)
(* preview_only=true, and absent when the pass gets past both gates.       *)
C2_ReasonAsStated ==
  \A p \in Procs :
    run[p].pc = "done" =>
      /\ ~run[p].settings.enabled => run[p].result[1].reason = <<"disabled">>
      /\ (run[p].settings.enabled /\ run[p].settings.preview_only) =>
            run[p].result[1].reason = <<"preview_only">>
      /\ (run[p].settings.enabled /\ ~run[p].settings.preview_only) =>
            run[p].result[1].reason = <<>>

(* C2, amended: the reason is "telegram_disabled" when enabled=false (also *)
(* with preview_only=true), "preview_only" when enabled=true and           *)
(* preview_only=true, and absent when the pass gets past both gates.       *)
C2_ReasonNamesCause ==
  \A p \in Procs :
    run[p].pc = "done" =>
      /\ ~run[p].settings.enabled =>
            run[p].result[1].reason = <<"telegram_disabled">>
      /\ (run[p].settings.enabled /\ run[p].settings.preview_only) =>
            run[p].result[1].reason = <<"preview_only">>
      /\ (run[p].settings.enabled /\ ~run[p].settings.preview_only) =>
            run[p].result[1].reason = <<>>

\* a pass has returned with both enabled=false and preview_only=true
C2_Witness ==
  \E p \in Procs :
    /\ run[p].pc = "done"
    /\ ~run[p].settings.enabled /\ run[p].settings.preview_only
    /\ run[p].result[1].reason = <<"telegram_disabled">>

----------------------------------------------------------------------------
\* the most recent SENT record of the pair of the current alert
LastSentOf(p) == getLastSent(history, CurAlert(p).author_id, CurAlert(p).type)

\* the clock is compared for the current alert, of an enabled type with a
\* cooldown > 0, whose pair has a SENT record
CooldownCase(p) ==
  /\ CooldownStep(p)
  /\ TypeEnabled(run[p].settings, CurAlert(p).type)
  /\ CooldownH(run[p].settings, CurAlert(p).type) > 0
  /\ LastSentOf(p) # <<>>

\* the end of the cooldown window of the current alert: T + c
CooldownEnd(p) ==
  LastSentOf(p)[1].sent_at[1]
    + CooldownH(run[p].settings, CurAlert(p).type) * MsPerHour

\* the evaluation went on to subscriber resolution
ProceedsToResolution(p) ==
  /\ run'[p].pc = "fanout"
  /\ run'[p].subscribers =
       ResolveSubscribers(conns, run[p].settings, CurAlert(p).type)
  /\ run'[p].i = run[p].i
  /\ history' = history
  /\ alertStatus' = alertStatus

\* the evaluation counted the alert as skipped and wrote no record
CountedSkippedOnly(p) ==
  /\ CountedSkipped(p)
  /\ history' = history
  /\ alertStatus' = alertStatus

(* C3 as stated: an alert of an enabled type whose pair has a most recent  *)
(* SENT record at T and cooldown c > 0 is recorded SKIPPED "cooldown" when *)
(* evaluated before T + c, and proceeds to subscriber resolution when      *)
(* evaluated at or after T + c.                                            *)
C3_CooldownAsStated ==
  [][\A p \in Procs :
       CooldownCase(p) =>
         IF now < CooldownEnd(p)
         THEN SkippedWith(p, "cooldown") /\ run'[p].sent = run[p].sent
         ELSE ProceedsToResolution(p)]_vars

(* C3, amended: such an alert is recorded SKIPPED "cooldown", counted in   *)
(* skipped and not sent when evaluated before T + c; evaluated at or after *)
(* T + c it passes the cooldown gate and, with dryRun=false, proceeds to   *)
(* subscriber resolution, while with dryRun=true it is counted in skipped  *)
(* without a record and without subscriber resolution.                     *)
C3_CooldownGate ==
  [][\A p \in Procs :
       CooldownCase(p) =>
         IF now < CooldownEnd(p)
         THEN SkippedWith(p, "cooldown") /\ run'[p].sent = run[p].sent
         ELSE IF run[p].dryRun THEN CountedSkippedOnly(p)
         ELSE ProceedsToResolution(p)]_vars

\* an alert evaluated exactly at T + c, with c > 0, is about to be sent
C3_Witness ==
  \E p \in Procs :
    /\ run[p].pc = "fanout"
    /\ run[p].subscribers # <<>>
    /\ run[p].attempts = <<>>
    /\ CooldownH(run[p].settings, CurAlert(p).type) > 0
    /\ run[p].lastSent # <<>>
    /\ LastSentOf(p) = run[p].lastSent
    /\ now = CooldownEnd(p)

----------------------------------------------------------------------------
\* two SENT records of one pair with cooldown c > 0 are at least c apart
SentPairsApart ==
  \A j1, j2 \in 1..Len(history) :
    ( /\ j1 < j2
      /\ history[j1].delivery_status = "SENT"
      /\ history[j2].delivery_status = "SENT"
      /\ history[j1].account_id = history[j2].account_id
      /\ history[j1].type = history[j2].type
      /\ CooldownH(settings, history[j1].type) > 0 )
    => history[j2].sent_at[1] - history[j1].sent_at[1]
         >= CooldownH(settings, history[j1].type) * MsPerHour

\* invocation p has completed a pass that got past the gates and was no dry run
CompletedPass(p) ==
  /\ run[p].pc = "done"
  /\ run[p].result[1].reason = <<>>
  /\ ~run[p].dryRun

\* the record a completed pass of p appended for the k-th alert it pulled
PassRecord(p, k) ==
  history[Len(history) - Len(run[p].previewAlerts) + k]

\* the k-th and m-th alert pulled by p have the same pair, with cooldown > 0
SamePairInPass(p, k, m) ==
  LET a == AlertById(run[p].previewAlerts[k])
      b == AlertById(run[p].previewAlerts[m])
  IN /\ k # m
     /\ a.author_id = b.author_id
     /\ a.type = b.type
     /\ CooldownH(run[p].settings, a.type) > 0

(* C4 as stated: SENT records of one pair with cooldown c > 0 are at least *)
(* c apart, and of two alerts of one pair pulled by one pass at most one   *)
(* is recorded SENT, the other being SKIPPED "cooldown".                   *)
C4_AsStated ==
  /\ SentPairsApart
  /\ \A p \in Procs :
       CompletedPass(p) =>
         \A k, m \in 1..Len(run[p].previewAlerts) :
           (SamePairInPass(p, k, m) /\ PassRecord(p, k).delivery_status = "SENT")
             => PassRecord(p, m) =
                  SkippedEvent(AlertById(run[p].previewAlerts[m]), "cooldown")

(* C4, amended: SENT records of one pair with cooldown c > 0 are at least  *)
(* c apart; when a pass records an alert SENT at T, an alert of the same   *)
(* pair that it evaluates later and before T + c is SKIPPED "cooldown".    *)
C4_CooldownInvariant ==
  /\ SentPairsApart
  /\ \A p \in Procs :
       CompletedPass(p) =>
         \A k, m \in 1..Len(run[p].previewAlerts) :
           ( /\ SamePairInPass(p, k, m)
             /\ k < m
             /\ PassRecord(p, k).delivery_status = "SENT"
             /\ now < PassRecord(p, k).sent_at[1]
                  + CooldownH(run[p].settings, PassRecord(p, k).type) * MsPerHour )
             => PassRecord(p, m) =
                  SkippedEvent(AlertById(run[p].previewAlerts[m]), "cooldown")

\* a pass run a full cooldown after an earlier delivery has sent the first
\* alert of a pair and skipped the second for cooldown
C4_Witness ==
  \E p \in Procs :
    /\ CompletedPass(p)
    /\ Len(run[p].previewAlerts) >= 2
    /\ Len(history) > Len(run[p].previewAlerts)
    /\ history[1] = PriorSent
    /\ SamePairInPass(p, 1, 2)
    /\ PassRecord(p, 1).delivery_status = "SENT"
    /\ PassRecord(p, 2).delivery_reason = Reason("cooldown")

----------------------------------------------------------------------------
(* C5: past the global gates, an alert whose type has type_enabled false   *)
(* is recorded SKIPPED "type_disabled", counted in skipped and never sent, *)
(* whatever the cooldown history of its account and the subscriber set.    *)
C5_TypeGate ==
  [][\A p \in Procs :
       ( /\ EvalStep(p)
         /\ CurAlert(p).type \in DOMAIN run[p].settings.type_enabled
         /\ run[p].settings.type_enabled[CurAlert(p).type] = FALSE )
       => /\ SkippedWith(p, "type_disabled")
          /\ run'[p].pc = "loop"
          /\ run'[p].sent = run[p].sent
          /\ run'[p].failed = run[p].failed
          /\ run'[p].calls = run[p].calls]_vars

\* an alert of a disabled type was skipped for its type although its pair is
\* inside its cooldown window and a subscriber is connected
C5_Witness ==
  \E p \in Procs :
    /\ run[p].pc = "loop"
    /\ run[p].i = 2
    /\ ~run[p].settings.type_enabled["EARLY_BREAKOUT"]
    /\ history = <<PriorSent, SkippedEvent(Alerts[1], "type_disabled")>>
    /\ run[p].settings.cooldown_hours["EARLY_BREAKOUT"] = 24
    /\ SomeEligible("EARLY_BREAKOUT")

----------------------------------------------------------------------------
\* a step of the fan-out of p to N >= 1 subscribers
FanOutCase(p) == FanOutStep(p) /\ Len(run[p].subscribers) >= 1

\* the step made one attempt more, to the subscriber whose turn it is, and
\* nothing else
OneAttemptMore(p) ==
  LET n == Len(run[p].attempts)
  IN /\ run'[p].pc = "fanout"
     /\ Len(run'[p].attempts) = n + 1
     /\ SubSeq(run'[p].attempts, 1, n) = run[p].attempts
     /\ run'[p].attempts[n + 1].chatId = run[p].subscribers[n + 1].chatId
     /\ run'[p].subscribers = run[p].subscribers
     /\ run'[p].calls = run[p].calls + 1
     /\ history' = history
     /\ alertStatus' = alertStatus

(* C6: in a fan-out to N >= 1 subscribers one send is attempted to each,   *)
(* whichever sends failed; if at least one succeeds, exactly one record is *)
(* appended, it is SENT, the alert is marked SENT at the Alert Source and  *)
(* the sent counter grows by 1.                                            *)
C6_PartialSuccess ==
  [][\A p \in Procs :
       /\ FanOutCase(p) =>
            IF Len(run[p].attempts) < Len(run[p].subscribers)
            THEN OneAttemptMore(p)
            ELSE (\E k \in 1..Len(run[p].attempts) : run[p].attempts[k].ok) =>
                   /\ Len(history') = Len(history) + 1
                   /\ SubSeq(history', 1, Len(history)) = history
                   /\ history'[Len(history')].id = CurAlert(p).id
                   /\ history'[Len(history')].delivery_status = "SENT"
                   /\ run'[p].pc = "mark"
                   /\ run'[p].calls = run[p].calls
       /\ MarkStep(p) =>
            /\ LastRecord.id = CurAlert(p).id
            /\ LastRecord.delivery_status = "SENT"
            /\ history' = history
            /\ alertStatus' = [alertStatus EXCEPT ![CurAlert(p).id] = "sent"]
            /\ run'[p].pc = "loop"
            /\ run'[p].i = run[p].i + 1
            /\ run'[p].sent = run[p].sent + 1
            /\ run'[p].failed = run[p].failed
            /\ run'[p].skipped = run[p].skipped]_vars

\* of three sends exactly one succeeded: the alert is recorded SENT once,
\* marked SENT and counted once
C6_Witness ==
  \E p \in Procs :
    /\ run[p].pc = "loop"
    /\ run[p].i = 2
    /\ run[p].calls = 3
    /\ Len(history) = 1
    /\ LastRecord.delivery_status = "SENT"
    /\ LastRecord.id = "a1"
    /\ LastRecord.target = <<1>>
    /\ alertStatus["a1"] = "sent"
    /\ run[p].sent = 1

(* C7: in a fan-out to N >= 1 subscribers whose sends all fail, exactly    *)
(* one record is appended, FAILED with a reason that holds the count N;    *)
(* the failed counter grows by 1, the alert is not marked SENT and the     *)
(* pass goes on with the next alert.                                       *)
C7_TotalFailure ==
  [][\A p \in Procs :
       ( /\ FanOutCase(p)
         /\ Len(run[p].attempts) = Len(run[p].subscribers)
         /\ \A k \in 1..Len(run[p].attempts) : ~run[p].attempts[k].ok )
       => /\ Len(history') = Len(history) + 1
          /\ SubSeq(history', 1, Len(history)) = history
          /\ history'[Len(history')].id = CurAlert(p).id
          /\ history'[Len(history')].delivery_status = "FAILED"
          /\ history'[Len(history')].delivery_reason
               = <<"all_sends_failed", Len(run[p].subscribers)>>
          /\ alertStatus' = alertStatus
          /\ run'[p].failed = run[p].failed + 1
          /\ run'[p].sent = run[p].sent
          /\ run'[p].calls = run[p].calls
          /\ run'[p].pc = "loop"
          /\ run'[p].i = run[p].i + 1]_vars

\* all sends to two or more subscribers failed for the first alert, it is
\* still PREVIEW, and the pass has gone on to record the second alert
C7_Witness ==
  \E p \in Procs :
    /\ run[p].pc \in {"loop", "mark"}
    /\ run[p].i >= 2
    /\ run[p].failed >= 1
    /\ Len(history) >= 2
    /\ history[Len(history) - 1].id = "a1"
    /\ history[Len(history) - 1].delivery_status = "FAILED"
    /\ history[Len(history) - 1].delivery_reason[2] >= 2
    /\ alertStatus["a1"] = "preview"
    /\ LastRecord.id = "a2"

----------------------------------------------------------------------------
(* C8: in a dry run, an alert that passes the type gate and the cooldown   *)
(* gate causes no transport call and no DeliveryRecord, keeps status       *)
(* PREVIEW and is counted in skipped.                                      *)
C8_DryRunInert ==
  [][\A p \in Procs :
       /\ ( /\ EvalStep(p)
            /\ run[p].dryRun
            /\ TypeEnabled(run[p].settings, CurAlert(p).type) )
          => /\ alertStatus[CurAlert(p).id] = "preview"
             /\ run'[p].calls = 0
             /\ IF CooldownH(run[p].settings, CurAlert(p).type) > 0
                THEN /\ run'[p].pc = "cooldown"
                     /\ run'[p].i = run[p].i
                     /\ run'[p].skipped = run[p].skipped
                     /\ history' = history
                     /\ alertStatus' = alertStatus
                ELSE CountedSkippedOnly(p)
       /\ ( /\ CooldownStep(p)
            /\ run[p].dryRun
            /\ ~InCooldown(LastSentOf(p), run[p].settings, CurAlert(p), now) )
          => /\ alertStatus[CurAlert(p).id] = "preview"
             /\ run'[p].calls = 0
             /\ run'[p].attempts = <<>>
             /\ CountedSkippedOnly(p)]_vars

\* a dry run over three eligible alerts with a subscriber connected has
\* returned skipped=3, with no call, no record and all alerts still PREVIEW
C8_Witness ==
  \E p \in Procs :
    /\ run[p].pc = "done"
    /\ run[p].dryRun
    /\ run[p].result[1].skipped = 3
    /\ run[p].calls = 0
    /\ history = <<>>
    /\ SomeEligible("EARLY_BREAKOUT")
    /\ \A id \in AlertIds : alertStatus[id] = "preview"

(* C9: dispatchPending with dryRun=true leaves the Delivery History Store  *)
(* as it was, also when pulled alerts have a disabled type or are inside   *)
(* their cooldown window.                                                  *)
C9_DryRunKeepsHistory ==
  [][\A p \in Procs :
       ((run[p].pc # "idle" /\ run[p].dryRun) \/ (StartStep(p) /\ run'[p].dryRun))
         => history' = history]_vars

(* C10: with dryRun=false, an alert that passes the type and cooldown      *)
(* gates while no connection is eligible and no admin destination is       *)
(* configured is recorded SKIPPED "no_subscribers", counted in skipped,    *)
(* not sent, and stays PREVIEW.                                            *)
C10_NoSubscribers ==
  [][\A p \in Procs :
       /\ ( /\ ResolutionStep(p)
            /\ ~SomeEligible(CurAlert(p).type)
            /\ run[p].settings.chat_id = "" )
          => /\ ~run[p].dryRun
             /\ run'[p].subscribers = <<>>
             /\ history' = history
       /\ ( /\ FanOutStep(p)
            /\ run[p].subscribers = <<>> )
          => /\ SkippedWith(p, "no_subscribers")
             /\ alertStatus'[CurAlert(p).id] = "preview"]_vars

\* the only connections are an inactive one and a muted one, no admin chat
\* is set, and the first alert was skipped for want of subscribers
C10_Witness ==
  \E p \in Procs :
    /\ run[p].pc = "loop"
    /\ ~run[p].dryRun
    /\ run[p].i = 2
    /\ run[p].calls = 0
    /\ run[p].skipped = 1
    /\ history = <<SkippedEvent(Alerts[1], "no_subscribers")>>
    /\ alertStatus["a1"] = "preview"
    /\ \E k \in 1..Len(conns) : ~conns[k].isActive
    /\ \E k \in 1..Len(conns) : conns[k].isActive /\ conns[k].chatId # ""

----------------------------------------------------------------------------
\* invocation p, no dry run, is inside its loop over the alerts it pulled
InLiveLoop(p) ==
  /\ run[p].pc \in {"loop", "cooldown", "fanout", "mark"}
  /\ ~run[p].dryRun
  /\ run[p].i <= Len(run[p].previewAlerts)

\* the history only grows at its end
HistoryExtended ==
  /\ Len(history') >= Len(history)
  /\ SubSeq(history', 1, Len(history)) = history

\* the step appended one record for the current alert of p
OneRecordMore(p, statuses) ==
  /\ Len(history') = Len(history) + 1
  /\ history'[Len(history')].id = CurAlert(p).id
  /\ history'[Len(history')].delivery_status \in statuses

(* C11: the history is a log with one entry per evaluation: a pass with    *)
(* dryRun=false that got past the global gates appends exactly one record  *)
(* (SENT, SKIPPED or FAILED) for each alert it pulled, before it goes on   *)
(* with the next alert, and no step modifies or removes an earlier record. *)
C11_OneRecordPerEvaluation ==
  [][/\ HistoryExtended
     /\ \A p \in Procs :
          (InLiveLoop(p) /\ run'[p] # run[p]) =>
            IF run[p].pc = "mark"
            THEN /\ run'[p].i = run[p].i + 1
                 /\ history' = history
            ELSE IF run'[p].pc = "mark"
            THEN /\ run'[p].i = run[p].i
                 /\ OneRecordMore(p, {"SENT"})
            ELSE IF run'[p].i = run[p].i + 1
            THEN OneRecordMore(p, {"SKIPPED", "FAILED"})
            ELSE /\ run'[p].i = run[p].i
                 /\ run'[p].pc \in {"cooldown", "fanout"}
                 /\ history' = history
     /\ \A p \in Procs :
          (run[p].pc = "loop" /\ run'[p].pc = "done" /\ ~run[p].dryRun) =>
            /\ Len(history) >= Len(run[p].previewAlerts)
            /\ \A k \in 1..Len(run[p].previewAlerts) :
                 PassRecord(p, k).id = run[p].previewAlerts[k]]_vars

\* a completed pass over three alerts left exactly three records, one SENT,
\* one SKIPPED and one FAILED, in the order of the alerts
C11_Witness ==
  \E p \in Procs :
    /\ CompletedPass(p)
    /\ Len(run[p].previewAlerts) = 3
    /\ Len(history) = 3
    /\ history[1].id = "a1" /\ history[1].delivery_status = "SENT"
    /\ history[2].id = "a2" /\ history[2].delivery_status = "SKIPPED"
    /\ history[3].id = "a3" /\ history[3].delivery_status = "FAILED"

----------------------------------------------------------------------------
\* the number of sends the fan-out of p made to a chat
SendsTo(p, chat) ==
  Cardinality({k \in 1..Len(run[p].attempts) :
                 run[p].attempts[k].chatId = chat})

(* C12: for every alert that reaches the fan-out, a non-empty              *)
(* settings.chat_id receives exactly one send attempt, whether or not it   *)
(* is also the chat of a resolved subscriber; with an empty                *)
(* settings.chat_id no send goes to an admin destination.                  *)
C12_AdminOnce ==
  [][\A p \in Procs :
       RecordStep(p) =>
         IF run[p].settings.chat_id # ""
         THEN SendsTo(p, run[p].settings.chat_id) = 1
         ELSE \A k \in 1..Len(run[p].subscribers) :
                run[p].subscribers[k].userId # "admin_channel"]_vars

----------------------------------------------------------------------------
\* a link command has made its updateOne and not yet sent its reply
LinkUnanswered ==
  \E l \in Loops :
    /\ poll[l].pc = "batch"
    /\ poll[l].aw = "updateOne"
    /\ poll[l].batch[poll[l].k].text[1] = "/start link_"

\* the link commands that succeeded
Connected == {j \in 1..Len(replies) : replies[j].kind = "connected"}

\* a /disconnect of the chat was processed and no link succeeded since: the
\* /disconnect was answered after the only link that succeeded, and no link
\* is on its way from its updateOne to its reply
Disconnected(chat) ==
  /\ ~LinkUnanswered
  /\ Cardinality(Connected) <= 1
  /\ \E i \in 1..Len(replies) :
       /\ replies[i].chatId = chat
       /\ replies[i].kind = "disconnected"
       /\ \A j \in Connected : j < i

\* the chat belongs to a connection that is eligible for the type
EligibleChat(chat, type) ==
  \E m \in 1..Len(conns) :
    /\ conns[m].chatId = chat
    /\ conns[m].isActive
    /\ conns[m].connectionsPreferences.enabled # "false"
    /\ (getPreferenceField(type) # <<>> =>
          conns[m].connectionsPreferences[getPreferenceField(type)[1]] # "false")

(* C13: in any interleaving of bot commands and passes, a chat that is not *)
(* the admin destination is resolved as a destination of an alert only if  *)
(* it belongs to an active connection whose preferences do not exclude the *)
(* type; after a /disconnect of the chat was processed, no later pass      *)
(* resolves it until a later link has succeeded.                           *)
C13_Lifecycle ==
  [][\A p \in Procs :
       ResolutionStep(p) =>
         \A k \in 1..Len(run'[p].subscribers) :
           LET chat == run'[p].subscribers[k].chatId
           IN chat # run[p].settings.chat_id =>
                /\ EligibleChat(chat, CurAlert(p).type)
                /\ ~Disconnected(chat)]_vars

----------------------------------------------------------------------------
\* the number of SENT records of an alert
SentCount(id) ==
  Cardinality({j \in 1..Len(history) :
                 history[j].id = id /\ history[j].delivery_status = "SENT"})

(* C14 as stated: with two invocations that interleave, there is at most   *)
(* one SENT record per alert id, so that no subscriber gets an alert from  *)
(* both, and no two SENT records of one pair are closer than the cooldown. *)
C14_AsStated ==
  /\ \A id \in AlertIds : SentCount(id) <= 1
  /\ SentPairsApart

(* C14, amended: an invocation pulls only alerts that are PREVIEW when it  *)
(* starts, each once; the answer of getLastSent it compares the clock with *)
(* is the most recent SENT record of the pair at the moment of the read,   *)
(* and it skips the alert when that answer is inside the window at the     *)
(* moment of the comparison; an alert is marked SENT only by an invocation *)
(* that has appended a SENT record for it; an alert has at most one SENT   *)
(* record per invocation that pulled it while it was PREVIEW.              *)
C14_OncePerPull ==
  [][/\ \A p \in Procs :
          StartStep(p) =>
            \A k \in 1..Len(run'[p].previewAlerts) :
              /\ alertStatus[run'[p].previewAlerts[k]] = "preview"
              /\ \A m \in 1..Len(run'[p].previewAlerts) :
                   run'[p].previewAlerts[k] = run'[p].previewAlerts[m] => k = m
     /\ \A p \in Procs :
          (EvalStep(p) /\ run'[p].pc = "cooldown") =>
            run'[p].lastSent = LastSentOf(p)
     /\ \A p \in Procs :
          ( /\ CooldownStep(p)
            /\ InCooldown(run[p].lastSent, run[p].settings, CurAlert(p), now) )
          => SkippedWith(p, "cooldown")
     /\ \A p \in Procs :
          ( /\ RecordStep(p)
            /\ history'[Len(history')].delivery_status = "SENT" )
          => /\ run'[p].pc = "mark"
             /\ history'[Len(history')].id = CurAlert(p).id
             /\ alertStatus' = alertStatus
     /\ alertStatus' # alertStatus =>
          \E p \in Procs :
            /\ MarkStep(p)
            /\ alertStatus' = [alertStatus EXCEPT ![CurAlert(p).id] = "sent"]
            /\ SentCount(CurAlert(p).id) >= 1
     /\ \A id \in AlertIds : SentCount(id)' <= Cardinality(Procs)]_vars

\* both invocations pulled the first alert while it was PREVIEW, and both
\* have recorded it SENT inside the cooldown window of its pair
C14_Witness ==
  /\ Len(history) >= 2
  /\ history[1].id = "a1" /\ history[1].delivery_status = "SENT"
  /\ history[2].id = "a1" /\ history[2].delivery_status = "SENT"
  /\ settings.cooldown_hours["EARLY_BREAKOUT"] = 1
  /\ history[2].sent_at[1] - history[1].sent_at[1] < MsPerHour
  /\ \A p \in Procs : run[p].pc = "loop" /\ run[p].previewAlerts = <<"a1">>

----------------------------------------------------------------------------
\* the SENT records of an alert, by position in the history
SentRecordsOf(id) ==
  {j \in 1..Len(history) :
     history[j].id = id /\ history[j].delivery_status = "SENT"}

\* the current alert of p has a SENT record, and the cooldown c > 0 of its
\* type has not elapsed since the latest SENT record of its pair
InsideOwnWindow(p) ==
  /\ SentRecordsOf(CurAlert(p).id) # {}
  /\ LastSentOf(p) # <<>>
  /\ now < LastSentOf(p)[1].sent_at[1]
            + run[p].settings.cooldown_hours[CurAlert(p).type] * MsPerHour

(* C15: when a pass stopped after the SENT record of an alert was appended *)
(* and before the alert was marked SENT, every later pass that evaluates   *)
(* the still-PREVIEW alert before the cooldown of its type has elapsed     *)
(* records it SKIPPED "cooldown" and sends nothing; the alert is delivered *)
(* a second time only once the cooldown has elapsed, or if it is 0.        *)
C15_CrashWindow ==
  [][\A p \in Procs :
       /\ (CooldownStep(p) /\ InsideOwnWindow(p)) =>
            /\ alertStatus[CurAlert(p).id] = "preview"
            /\ SkippedWith(p, "cooldown")
       /\ ( /\ SendStep(p)
            /\ SentRecordsOf(CurAlert(p).id) # {} ) =>
            \A j \in SentRecordsOf(CurAlert(p).id) :
              \/ run[p].settings.cooldown_hours[CurAlert(p).type] = 0
              \/ now >= history[j].sent_at[1]
                   + run[p].settings.cooldown_hours[CurAlert(p).type]
                       * MsPerHour]_vars

\* a pass stopped at instant 0 between the SENT record of the first alert
\* and its status mark; a later pass, inside the window, has skipped the
\* alert for cooldown, and it is still PREVIEW
C15_Witness ==
  \E p \in Procs :
    /\ run[p].pc = "loop"
    /\ run[p].i = 2
    /\ run[p].calls = 0
    /\ Len(history) = 2
    /\ history[1].id = "a1" /\ history[1].delivery_status = "SENT"
    /\ history[2] = SkippedEvent(Alerts[1], "cooldown")
    /\ alertStatus["a1"] = "preview"
    /\ now > history[1].sent_at[1]

----------------------------------------------------------------------------
\* sendTestMessage threw the error in this step and has touched neither
\* transport nor history
FailedFast(message) ==
  /\ test'.pc = "done"
  /\ test'.threw = <<message>>
  /\ test'.returned = <<>>
  /\ test'.calls = 0
  /\ history' = history

\* the chat of the first connection that is an active subscriber of TEST
FirstTestSubscriber ==
  conns[CHOOSE k \in 1..Len(conns) :
          /\ conns[k].isActive /\ conns[k].chatId # ""
          /\ conns[k].connectionsPreferences.enabled # "false"
          /\ \A m \in 1..(k - 1) :
               ~( /\ conns[m].isActive /\ conns[m].chatId # ""
                  /\ conns[m].connectionsPreferences.enabled # "false" )].chatId

\* sendMessage is called in this step, for the chat, and nothing is recorded
SendsTestTo(chat) ==
  /\ test'.pc = "send"
  /\ test'.calls = 1
  /\ test'.target = chat
  /\ test'.threw = <<>>
  /\ history' = history

(* C16: sendTestMessage throws one error when enabled=false, another when  *)
(* enabled=true and preview_only=true, and a third when there is neither   *)
(* an admin destination nor an active TEST subscriber; in all three cases  *)
(* the transport is not called and no record is appended.  Otherwise the   *)
(* admin destination is used if configured, else the first active TEST     *)
(* subscriber.                                                             *)
C16_FailFast ==
  [][/\ Cardinality({ErrDisabled, ErrPreviewOnly, ErrNoChat}) = 3
     /\ (test.pc = "idle" /\ test' # test) =>
          /\ test'.pc = "settings"
          /\ test'.calls = 0 /\ test'.threw = <<>>
          /\ history' = history
     /\ (test.pc = "settings" /\ test' # test) =>
          /\ ~settings.enabled => FailedFast(ErrDisabled)
          /\ (settings.enabled /\ settings.preview_only) =>
               FailedFast(ErrPreviewOnly)
          /\ (settings.enabled /\ ~settings.preview_only) =>
               IF settings.chat_id # ""
               THEN SendsTestTo(settings.chat_id)
               ELSE /\ test'.pc = "find"
                    /\ test'.calls = 0 /\ test'.threw = <<>>
                    /\ history' = history
                    /\ (test'.subscribers = <<>>) = ~SomeEligible("TEST")
                    /\ SomeEligible("TEST") =>
                         test'.subscribers[1].chatId = FirstTestSubscriber
     /\ (test.pc = "find" /\ test' # test) =>
          IF test.subscribers = <<>>
          THEN FailedFast(ErrNoChat)
          ELSE SendsTestTo(test.subscribers[1].chatId)
     /\ test'.threw \in {<<ErrDisabled>>, <<ErrPreviewOnly>>, <<ErrNoChat>>}
          => test'.calls = 0 /\ history' = history]_vars

\* delivery is on, no admin destination is set and the registry holds no
\* active subscriber: the call threw the no-destination error, without a
\* transport call and without a record
C16_Witness ==
  /\ test.pc = "done"
  /\ test.threw = <<ErrNoChat>>
  /\ test.calls = 0
  /\ settings.enabled /\ ~settings.preview_only /\ settings.chat_id = ""
  /\ ~SomeEligible("TEST")
  /\ history = <<>>

\* the step appended one SENT record of type TEST, sent now
TestRecordAppended ==
  /\ Len(history') = Len(history) + 1
  /\ SubSeq(history', 1, Len(history)) = history
  /\ history'[Len(history')].type = "TEST"
  /\ history'[Len(history')].delivery_status = "SENT"
  /\ history'[Len(history')].sent_at = <<now>>

(* C17: sendTestMessage records a SENT record of type TEST if and only if  *)
(* its single send succeeded: on success exactly one such record is        *)
(* appended and ok=true is returned; when the send fails no record is      *)
(* appended and the error reaches the caller.                              *)
C17_RecordIffSent ==
  [][/\ test'.calls <= 1
     /\ (history' # history) =>
          /\ test.pc = "send" /\ test.sendOk = <<TRUE>>
          /\ TestRecordAppended
     /\ (test.pc = "send" /\ test' # test) =>
          IF test.sendOk = <<TRUE>>
          THEN /\ TestRecordAppended
               /\ test'.pc = "record"
               /\ test'.threw = <<>>
          ELSE /\ history' = history
               /\ test'.pc = "done"
               /\ test'.returned = <<>>
               /\ test'.threw # <<>>
     /\ (test.pc = "record" /\ test' # test) =>
          /\ test'.pc = "done"
          /\ test'.returned = <<[ok |-> TRUE]>>
          /\ test'.threw = <<>>
          /\ history' = history
     /\ (test'.pc = "done" /\ test'.returned # <<>>) =>
          /\ test'.sendOk = <<TRUE>>
          /\ test.pc \in {"record", "done"}]_vars

\* the one send of a test to the first subscriber failed: the error is the
\* caller's and the history is still empty
C17_Witness ==
  /\ test.pc = "done"
  /\ test.calls = 1
  /\ test.sendOk = <<FALSE>>
  /\ test.threw = <<ErrSendFailed>>
  /\ test.target = "chat1"
  /\ settings.chat_id = ""
  /\ history = <<>>

----------------------------------------------------------------------------
\* a step of loop l inside its batch: the call its handler awaits has
\* answered or rejected
HandleStep(l) == poll[l].pc = "batch" /\ poll'[l] # poll[l]

\* the update loop l is at
CurUpdate(l) == poll[l].batch[poll[l].k]

\* processUpdate returns for the current update of loop l in its step: the
\* loop is at the next update of its batch, or past the last one
Returns(l) ==
  /\ HandleStep(l)
  /\ \/ /\ poll'[l].pc = "batch"
        /\ poll'[l].k = poll[l].k + 1
        /\ poll'[l].aw = "import"
     \/ /\ poll'[l].pc = "sleep"
        /\ poll[l].k = Len(poll[l].batch)

\* the import of line 33 is done for a '/start link_<token>' command: the
\* handler of loop l makes its findOne for the token
LinkLookup(l) ==
  /\ HandleStep(l)
  /\ CurUpdate(l).text[1] = "/start link_"
  /\ poll[l].aw = "import"

\* the token of the link command loop l is at
LookedUp(l) == CurUpdate(l).text[2]

\* the findOne of the link command of loop l has answered
LinkStep(l) ==
  /\ HandleStep(l)
  /\ CurUpdate(l).text[1] = "/start link_"
  /\ poll[l].aw = "findOne"
  /\ ~poll[l].rej

\* the connections that wait for a link with the token
PendingWith(token) ==
  {k \in 1..Len(conns) : pending[k] # <<>> /\ pending[k][1].token = token}

\* the handler of loop l calls sendTelegramMessage with the message for the
\* sender of its update, and nothing else: the sender has the message when
\* Telegram accepts the send, and nothing when it refuses
SendsReply(l, kind) ==
  /\ poll'[l].pc = "batch" /\ poll'[l].k = poll[l].k
  /\ poll'[l].aw = "reply"
  /\ poll'[l].msg = kind
  /\ replies' = IF poll'[l].rej THEN replies
                ELSE Append(replies, Reply(CurUpdate(l), kind))

----------------------------------------------------------------------------
\* the link command of the reply
LinkOf(reply) == inbox[reply.update_id].text

(* C19: link tokens are single-use: once a '/start link_<token>' command   *)
(* was answered "connected", every later answer to a link command with the *)
(* same token, from any chat and to a replay of the same update as well,   *)
(* is the invalid-or-expired reply.                                        *)
C19_SingleUse ==
  \A i, j \in 1..Len(replies) :
    ( /\ i < j
      /\ replies[i].kind = "connected"
      /\ LinkOf(replies[i])[1] = "/start link_"
      /\ LinkOf(replies[j]) = LinkOf(replies[i]) )
    => replies[j].kind = "invalid_or_expired_link"

----------------------------------------------------------------------------
(* C20 as stated: the offset advances only after every update of the       *)
(* fetched batch has been processed; while a batch is partly processed the *)
(* offset has the value it had when the batch was fetched.                 *)
C20_AsStated ==
  [][\A l \in Loops :
       (poll[l].pc = "batch" /\ poll'[l].pc = "batch") => offset' = offset]_vars

(* C20, amended: the offset is assigned after each update of a batch: in   *)
(* the step in which processUpdate returns for an update, the loop sets    *)
(* the offset to that update's id plus 1, with later updates of the batch  *)
(* still to be processed; a loop leaves the offset alone while its handler *)
(* awaits a call, and nothing but these assignments changes the offset.    *)
C20_PerUpdate ==
  [][/\ \A l \in Loops :
          HandleStep(l) =>
            /\ IF Returns(l)
               THEN offset' = CurUpdate(l).update_id + 1
               ELSE offset' = offset /\ poll'[l].pc = "batch"
                                     /\ poll'[l].k = poll[l].k
            /\ (poll[l].aw = "reply" /\ ~poll[l].rej) => Returns(l)
            /\ ( /\ poll[l].aw \in {"import", "importD1"}
                 /\ CurUpdate(l).text[1] \in RecognizedCommands ) =>
                 ~Returns(l)
     /\ (offset' # offset) => \E l \in Loops : Returns(l)]_vars

\* a batch of two updates is half processed: the offset is already past
\* the first update although the handler of the second has made no call
\* yet, and Telegram has not been told
C20_Witness ==
  \E l \in Loops :
    /\ poll[l].pc = "batch"
    /\ Len(poll[l].batch) = 2
    /\ poll[l].k = 2
    /\ poll[l].aw = "import"
    /\ offset = poll[l].batch[1].update_id + 1
    /\ confirmed < offset

----------------------------------------------------------------------------
\* the messages the handlers send
ReplyKinds ==
  {"connected", "invalid_or_expired_link", "connected_by_code",
   "invalid_connection_code", "welcome", "linked", "invalid_or_expired_code",
   "link_failed", "help", "connection_active", "not_connected",
   "disconnected"}

\* the calls on the registry, none of which is made inside a try of its
\* own
RegistryCalls == {"findOne", "updateOne", "saveTelegramConnection"}

\* the call the handler of loop l awaited has rejected with nothing but the
\* catch of processUpdate around it (line 296): a call on the registry, or
\* a sendTelegramMessage outside the try of /link
RejectedStep(l) ==
  /\ HandleStep(l)
  /\ poll[l].rej
  /\ \/ poll[l].aw \in RegistryCalls
     \/ /\ poll[l].aw = "reply"
        /\ CurUpdate(l).text[1] = "/link " => poll[l].msg = "link_failed"

\* the replies sent for the update with the id
RepliesFor(id) == {k \in 1..Len(replies) : replies[k].update_id = id}

(* C21 as stated: an update whose handler fails with an exception is not   *)
(* acknowledged: the offset does not move past it, so that a later poll    *)
(* fetches it again.                                                       *)
C21_AsStated ==
  [][\A l \in Loops :
       RejectedStep(l) => offset' <= CurUpdate(l).update_id]_vars

(* C21, amended: a loop hands every update of a batch it fetched to        *)
(* processUpdate once, in the order of the batch; when processUpdate       *)
(* returns, whether its handler completed or failed with an exception, the *)
(* loop sets the offset to the update's id plus 1 and goes on, so that a   *)
(* failure leads to no second attempt; a getUpdates call returns only      *)
(* updates at or above the offset it was made with, in ascending order.    *)
C21_HandedOverOnce ==
  [][\A l \in Loops :
       /\ (poll[l].pc = "getUpdates" /\ poll'[l].pc = "json") =>
            /\ \A i \in 1..Len(poll'[l].batch) :
                 poll'[l].batch[i].update_id >= poll[l].url
            /\ \A i, j \in 1..Len(poll'[l].batch) :
                 i < j => poll'[l].batch[i].update_id
                            < poll'[l].batch[j].update_id
       /\ (poll[l].pc = "json" /\ poll'[l].pc = "batch") =>
            /\ poll'[l].k = 1 /\ poll'[l].aw = "import"
            /\ poll'[l].batch = poll[l].batch
       /\ (HandleStep(l) /\ poll'[l].pc = "batch") =>
            /\ poll'[l].batch = poll[l].batch
            /\ poll'[l].k \in {poll[l].k, poll[l].k + 1}
       /\ Returns(l) => offset' = CurUpdate(l).update_id + 1
       /\ RejectedStep(l) =>
            /\ Returns(l)
            /\ conns' = conns /\ pending' = pending /\ links' = links
            /\ replies' = replies]_vars

\* the /disconnect that came first failed (the connection of the chat is
\* still active and no reply went out), the update after it was answered,
\* and the next getUpdates has told Telegram to drop both
C21_Witness ==
  /\ inbox[1].text = <<"/disconnect">>
  /\ RepliesFor(1) = {}
  /\ RepliesFor(2) # {}
  /\ \E k \in 1..Len(conns) : conns[k].chatId = "chat1" /\ conns[k].isActive
  /\ offset > inbox[2].update_id
  /\ confirmed = offset
  /\ \E l \in Loops : poll[l].pc = "json"

----------------------------------------------------------------------------
\* loop l goes on after the current update: with the update of the batch
\* behind it, or, after the last one, with the sleep before the next poll
GoesOn(l) ==
  /\ Returns(l)
  /\ poll[l].k < Len(poll[l].batch) => poll'[l].pc = "batch"

\* a call the handler of loop l awaited has rejected inside a try of the
\* handler: it goes on to a reply
Swallowed(l) ==
  /\ HandleStep(l)
  /\ poll[l].rej
  /\ ~RejectedStep(l)

(* C22: a handler that fails, by a rejecting call on the registry or on    *)
(* the D1 links or by a reply that Telegram refuses, does not end the      *)
(* loop, which goes on with the next update of the batch or with the next  *)
(* poll; a failed getUpdates leaves the offset as it is and leads, through *)
(* the sleeps, to the next getUpdates; the loop ends only at the while     *)
(* test after stopTelegramPolling.                                         *)
C22_LoopSurvives ==
  [][\A l \in Loops :
       /\ RejectedStep(l) => GoesOn(l)
       /\ Swallowed(l) => \E kind \in ReplyKinds : SendsReply(l, kind)
       /\ (poll[l].pc \in {"getUpdates", "json"} /\ poll'[l].pc = "backoff") =>
            offset' = offset /\ isPolling' = isPolling
       /\ (poll[l].pc = "backoff" /\ poll'[l] # poll[l]) =>
            poll'[l].pc = "sleep"
       /\ (poll[l].pc = "sleep" /\ poll'[l] # poll[l] /\ isPolling) =>
            poll'[l].pc = "getUpdates" /\ poll'[l].url = offset
       /\ (poll[l].pc # "off" /\ poll'[l].pc = "off") =>
            poll[l].pc = "sleep" /\ ~isPolling]_vars

\* Telegram refused the reply to the /disconnect that came first (the
\* connection of the chat is inactive and no reply went out), the loop
\* answered the update after it, and the getUpdates after the batch failed:
\* the loop is in the catch, still polling
C22_Witness ==
  \E l \in Loops :
    /\ poll[l].pc = "backoff"
    /\ isPolling
    /\ \A m \in Loops : m # l => poll[m].pc = "off"
    /\ inbox[1].text = <<"/disconnect">>
    /\ \E k \in 1..Len(conns) : conns[k].chatId = "chat1"
    /\ \A k \in 1..Len(conns) : ~conns[k].isActive
    /\ RepliesFor(1) = {}
    /\ RepliesFor(2) # {}
    /\ offset = inbox[2].update_id + 1

----------------------------------------------------------------------------
(* C23: every update with a recognized command is answered with exactly    *)
(* one message to the chat it came from, also when the registry call of    *)
(* its handler fails: when processUpdate returns for it, one reply to its  *)
(* chat has been sent; a text that is no command is not answered, and its  *)
(* handler changes no connection and no link.                              *)
C23_OneReply ==
  [][\A l \in Loops :
       /\ Returns(l) =>
            LET update == CurUpdate(l)
                sent == {i \in 1..Len(replies') :
                           replies'[i].update_id = update.update_id}
            IN IF update.text[1] \in RecognizedCommands
               THEN /\ Cardinality(sent) = 1
                    /\ \A i \in sent : replies'[i].chatId = update.chat
               ELSE sent = {}
       /\ ( /\ HandleStep(l)
            /\ CurUpdate(l).text[1] \notin RecognizedCommands ) =>
            /\ replies' = replies /\ conns' = conns
            /\ pending' = pending /\ links' = links]_vars

----------------------------------------------------------------------------
\* the settings of invocation p hold no cooldown entry for the type of its
\* current alert
NoCooldownEntry(p) ==
  CurAlert(p).type \notin DOMAIN run[p].settings.cooldown_hours

\* the clock is read less than 12 hours after the SENT record getLastSent
\* answered for the current alert
WithinTwelveHours(p) ==
  /\ run[p].lastSent # <<>>
  /\ now - run[p].lastSent[1].sent_at[1] < 12 * MsPerHour

\* the evaluation went on to the cooldown gate: it asked getLastSent for the
\* most recent SENT record of the pair and wrote nothing
AsksLastSent(p) ==
  /\ run'[p].pc = "cooldown"
  /\ run'[p].lastSent = LastSentOf(p)
  /\ run'[p].i = run[p].i
  /\ history' = history
  /\ alertStatus' = alertStatus

(* C24 as stated: an alert whose type has no cooldown entry gets the       *)
(* cooldown gate with 12 hours: its evaluation asks for the last SENT      *)
(* record of its pair, and less than 12 hours after that record it is      *)
(* recorded SKIPPED "cooldown".                                            *)
C24_AsStated ==
  [][\A p \in Procs :
       /\ (EvalStep(p) /\ NoCooldownEntry(p)) => AsksLastSent(p)
       /\ (CooldownStep(p) /\ NoCooldownEntry(p) /\ WithinTwelveHours(p)) =>
            SkippedWith(p, "cooldown")]_vars

(* C24, amended: an alert that passes the type gate and whose type has no  *)
(* cooldown entry gets a cooldown of 12 hours, never of zero: its          *)
(* evaluation asks for the last SENT record of its pair; less than 12      *)
(* hours after that record it is recorded SKIPPED "cooldown", otherwise it *)
(* passes the cooldown gate.                                               *)
C24_Fallback ==
  [][\A p \in Procs :
       /\ ( /\ EvalStep(p)
            /\ NoCooldownEntry(p)
            /\ TypeEnabled(run[p].settings, CurAlert(p).type) )
          => AsksLastSent(p)
       /\ (CooldownStep(p) /\ NoCooldownEntry(p))
          => IF WithinTwelveHours(p)
             THEN SkippedWith(p, "cooldown") /\ run'[p].sent = run[p].sent
             ELSE IF run[p].dryRun THEN CountedSkippedOnly(p)
             ELSE ProceedsToResolution(p)]_vars

\* the alert of the type without a cooldown entry was evaluated one
\* millisecond before the 12 hours were over and skipped, and evaluated
\* again when they were over and sent
C24_Witness ==
  /\ OtherType \notin DOMAIN settings.cooldown_hours
  /\ Len(history) = 3
  /\ history[1] = PriorOtherSent
  /\ history[2] = SkippedEvent(OtherAlerts[1], "cooldown")
  /\ history[3].delivery_status = "SENT"
  /\ history[3].sent_at = <<PriorOtherSent.sent_at[1] + 12 * MsPerHour>>
  /\ alertStatus[OtherAlerts[1].id] = "sent"

----------------------------------------------------------------------------
\* the settings of invocation p hold no type_enabled entry for the type of
\* its current alert
NoTypeEntry(p) ==
  CurAlert(p).type \notin DOMAIN run[p].settings.type_enabled

(* C30: an alert whose type has no entry in type_enabled is recorded       *)
(* SKIPPED "type_disabled" when it is evaluated, dry run or not, and never *)
(* reaches the send loop, whatever the other settings are.                 *)
C30_MissingIsDisabled ==
  [][\A p \in Procs :
       /\ (EvalStep(p) /\ NoTypeEntry(p)) =>
            SkippedWith(p, "type_disabled") /\ run'[p].sent = run[p].sent
       /\ (CooldownStep(p) \/ FanOutStep(p) \/ MarkStep(p)
             \/ run'[p].pc \in {"cooldown", "fanout", "mark"}) =>
            CurAlert(p).type \in DOMAIN run[p].settings.type_enabled]_vars

\* the RISK_SPIKE alert was skipped as type_disabled in a pass that is not
\* a dry run and in a dry run, with a subscriber connected, no cooldown
\* and no earlier delivery
C30_Witness ==
  /\ OtherType \notin DOMAIN settings.type_enabled
  /\ OtherType \in DOMAIN settings.cooldown_hours
  /\ settings.cooldown_hours[OtherType] = 0
  /\ SomeEligible(OtherType)
  /\ history = << SkippedEvent(OtherAlerts[1], "type_disabled"),
                  SkippedEvent(OtherAlerts[1], "type_disabled") >>
  /\ alertStatus[OtherAlerts[1].id] = "preview"
  /\ \E p \in Procs : run[p].pc = "done" /\ run[p].dryRun
                      /\ run[p].result[1].skipped = 1

----------------------------------------------------------------------------
\* the step appended one record, of the status, for the current alert of p
Recorded(p, status) ==
  /\ Len(history') = Len(history) + 1
  /\ SubSeq(history', 1, Len(history)) = history
  /\ history'[Len(history')].id = CurAlert(p).id
  /\ history'[Len(history')].delivery_status = status

(* C25: with passes that do not overlap, an alert status changes only in   *)
(* the step of a pass that is no dry run and has appended the SENT record  *)
(* of that alert, the step that follows the record, and only from PREVIEW  *)
(* to SENT; a SENT alert stays SENT and is not evaluated, sent or recorded *)
(* again; each alert id has at most one SENT record.                       *)
C25_StatusByDelivery ==
  [][/\ (alertStatus' # alertStatus) =>
          \E p \in Procs :
            /\ MarkStep(p)
            /\ ~run[p].dryRun
            /\ LastRecord.id = CurAlert(p).id
            /\ LastRecord.delivery_status = "SENT"
            /\ history' = history
            /\ alertStatus[CurAlert(p).id] = "preview"
            /\ alertStatus' = [alertStatus EXCEPT ![CurAlert(p).id] = "sent"]
     /\ \A p \in Procs :
          (FanOutStep(p) /\ Recorded(p, "SENT")) =>
             run'[p].pc = "mark" /\ run'[p].i = run[p].i
     /\ \A p \in Procs :
          MarkStep(p) => alertStatus'[CurAlert(p).id] = "sent"
     /\ \A id \in DOMAIN alertStatus :
          alertStatus[id] = "sent" => alertStatus'[id] = "sent"
     /\ \A p \in Procs :
          (EvalStep(p) \/ CooldownStep(p) \/ FanOutStep(p)) =>
             alertStatus[CurAlert(p).id] = "preview"
     /\ \A id \in DOMAIN alertStatus : SentCount(id)' <= 1]_vars

\* the first alert was sent by one pass and a later pass, which pulled the
\* alert after it, has ended: the first alert has its one SENT record
C25_Witness ==
  \E p \in Procs :
    /\ CompletedPass(p)
    /\ run[p].previewAlerts = <<Alerts[2].id>>
    /\ alertStatus[Alerts[1].id] = "sent"
    /\ SentCount(Alerts[1].id) = 1
    /\ Len(history) >= 2
    /\ LastRecord.id = Alerts[2].id
    /\ LastRecord.delivery_status \in {"SKIPPED", "FAILED"}
    /\ alertStatus[Alerts[2].id] = "preview"

----------------------------------------------------------------------------
\* the limits a caller passes, and the one that applies without
PassLimits == {lim[1] : lim \in LimitChoices \ {<<>>}} \cup {50}

(* C26: in a pass that got past the global gates at most limit alerts are  *)
(* pulled (50 without a limit); while the pass runs, sent + skipped +      *)
(* failed is the number of alerts it is through with, and when it returns  *)
(* the three counters add up to the number of alerts pulled; a dry run has *)
(* sent = 0 and failed = 0.                                                *)
C26_CounterAccounting ==
  \A p \in Procs :
    /\ run[p].pc # "idle" => run[p].limit \in PassLimits
    /\ run[p].pulled =>
         /\ Len(run[p].previewAlerts) <= run[p].limit
         /\ run[p].dryRun => run[p].sent = 0 /\ run[p].failed = 0
    /\ run[p].pc \in {"loop", "cooldown", "fanout", "mark"} =>
         run[p].sent + run[p].skipped + run[p].failed = run[p].i - 1
    /\ (run[p].pc = "done" /\ run[p].pulled) =>
         LET res == run[p].result[1]
         IN /\ res.sent + res.skipped + res.failed = Len(run[p].previewAlerts)
            /\ res.sent >= 0 /\ res.skipped >= 0 /\ res.failed >= 0
            /\ run[p].dryRun => res.sent = 0 /\ res.failed = 0

\* a pass without a limit has returned with one alert in each counter
C26_Witness ==
  \E p \in Procs :
    /\ run[p].pc = "done"
    /\ run[p].pulled
    /\ run[p].limit = 50
    /\ Len(run[p].previewAlerts) = 3
    /\ run[p].result[1].sent = 1
    /\ run[p].result[1].skipped = 1
    /\ run[p].result[1].failed = 1

----------------------------------------------------------------------------
\* the alert has a SKIPPED or a FAILED record
Undelivered(id) ==
  \E j \in 1..Len(history) :
    history[j].id = id /\ history[j].delivery_status \in {"SKIPPED", "FAILED"}

\* the current alert of p, a pass that is no dry run, was skipped or failed
\* in an earlier pass
EvaluatedAgain(p) ==
  ~run[p].dryRun /\ Undelivered(CurAlert(p).id)

(* C27: an evaluation that records SKIPPED or FAILED leaves the alert      *)
(* PREVIEW; a later pass that is no dry run pulls it while it is among the *)
(* first limit PREVIEW alerts, runs the gates on it again and appends one  *)
(* more record for it; with its type enabled, outside its cooldown and     *)
(* with a subscriber resolved it reaches the send loop, and with one send  *)
(* that succeeds it is recorded SENT and marked SENT.                      *)
C27_NoTerminalState ==
  [][\A p \in Procs :
       /\ ( /\ EvalStep(p) \/ CooldownStep(p) \/ FanOutStep(p)
            /\ (Recorded(p, "SKIPPED") \/ Recorded(p, "FAILED")) )
          => /\ alertStatus'[CurAlert(p).id] = "preview"
             /\ run'[p].pc = "loop" /\ run'[p].i = run[p].i + 1
       /\ (StartStep(p) /\ run'[p].pulled) =>
            \A id \in DOMAIN alertStatus :
              ( /\ Undelivered(id)
                /\ alertStatus[id] = "preview"
                /\ Cardinality({a \in DOMAIN alertStatus :
                                  alertStatus[a] = "preview"}) <= run'[p].limit )
              => \E k \in 1..Len(run'[p].previewAlerts) :
                    run'[p].previewAlerts[k] = id
       /\ (EvalStep(p) /\ EvaluatedAgain(p)) =>
            LET cfg == run[p].settings
                alert == CurAlert(p)
            IN IF ~TypeEnabled(cfg, alert.type)
               THEN SkippedWith(p, "type_disabled")
               ELSE IF CooldownH(cfg, alert.type) > 0
               THEN AsksLastSent(p)
               ELSE ProceedsToResolution(p)
       /\ (CooldownStep(p) /\ EvaluatedAgain(p)) =>
            IF InCooldown(LastSentOf(p), run[p].settings, CurAlert(p), now)
            THEN SkippedWith(p, "cooldown")
            ELSE ProceedsToResolution(p)
       /\ (FanOutStep(p) /\ EvaluatedAgain(p)) =>
            IF run[p].subscribers = <<>>
            THEN SkippedWith(p, "no_subscribers")
            ELSE IF Len(run[p].attempts) < Len(run[p].subscribers)
            THEN OneAttemptMore(p)
            ELSE IF CountOk(run[p].attempts, TRUE) > 0
            THEN Recorded(p, "SENT") /\ run'[p].pc = "mark"
            ELSE Recorded(p, "FAILED")
       /\ (MarkStep(p) /\ EvaluatedAgain(p)) =>
            /\ alertStatus'[CurAlert(p).id] = "sent"
            /\ history' = history
            /\ run'[p].sent = run[p].sent + 1]_vars

\* the first alert was skipped inside the cooldown of its pair by one pass
\* and sent by a later pass, after the cooldown
C27_Witness ==
  /\ Len(history) = 3
  /\ history[1] = PriorSent
  /\ history[2] = SkippedEvent(Alerts[1], "cooldown")
  /\ history[3].id = Alerts[1].id
  /\ history[3].delivery_status = "SENT"
  /\ alertStatus[Alerts[1].id] = "sent"
  /\ \E p \in Procs : CompletedPass(p) /\ run[p].result[1].sent = 1

----------------------------------------------------------------------------
(* C28: in the fan-out of one alert no chat id gets more than one send     *)
(* attempt, for every registry state the bot commands can lead to.         *)
C28_NoDuplicateChat ==
  [][\A p \in Procs :
       FanOutStep(p) =>
         \A k, m \in 1..Len(run'[p].attempts) :
           run'[p].attempts[k].chatId = run'[p].attempts[m].chatId
             => k = m]_vars

----------------------------------------------------------------------------
\* loop l is running: its call of startTelegramPolling has not returned
Running(l) == poll[l].pc # "off"

(* C29: at most one polling loop executes at any time, also when           *)
(* startTelegramPolling is called after stopTelegramPolling while the      *)
(* earlier loop is still suspended in its fetch or its sleep: never do two *)
(* loops hold a fetched batch, and so advance the offset, together.        *)
C29_SingleLoop ==
  \A l1, l2 \in Loops :
    (Running(l1) /\ Running(l2) /\ isPolling
       /\ poll[l1].pc = "batch" /\ poll[l2].pc = "batch") => l1 = l2

====
